---- MODULE Spec2Model ----
(***************************************************************************)
(* State-machine model of the claude-code-action orchestrator:             *)
(*   - src/src/entrypoints/run.ts      run()  (unified entrypoint)         *)
(*   - src/src/entrypoints/prepare.ts  run()  (standalone prepare step)    *)
(*   - src/unnamed/part_000            github/token.ts (credential broker) *)
(*   - src/unnamed/part_002            modes/tag  prepareTagMode           *)
(*   - src/src/modes/agent/index.ts    prepareAgentMode                    *)
(* One process invocation handles one run; every await is a step.          *)
(***************************************************************************)
EXTENDS Naturals, Sequences, FiniteSets

\* ------------------------------------------------------------------ bounds
\* attempt cap of retryWithBackoff (its default; the callers pass no options)
MaxAttempts == 3

\* ------------------------------------------------------------------ values
Undefined == "undefined"
Absent == "absent"
WorkflowNotFound == "workflow_not_found_on_default_branch"
OverrideToken == "override-token"

NoError == [kind |-> "none", message |-> ""]
Err(msg) == [kind |-> "Error", message |-> msg]
SkipErr(msg) == [kind |-> "WorkflowValidationSkipError", message |-> msg]

\* (the source quotes id-token: write in backticks)
OidcFailureMessage == "Could not fetch an OIDC token. Did you remember to add id-token: write to your workflow permissions?"
NoWritePermissionMessage == "Actor does not have write permissions to the repository"
InstallFailureMessage == "Failed to install Claude Code after 3 attempts"
\* installClaudeCode: for (let attempt = 1; attempt <= 3; attempt++)
InstallAttempts == 3

\* responses of the token-exchange endpoint (body fields of interest)
OkResponses ==
  [ok : {TRUE}, errorCode : {Absent}, message : {Absent}, errorMessage : {Absent},
   token : {Absent, "", "tokA"}, app_token : {Absent, "", "tokB"}]
ErrorResponses ==
  [ok : {FALSE}, errorCode : {Absent, WorkflowNotFound, "other_code"},
   message : {Absent, "top message"}, errorMessage : {Absent, "server message"},
   token : {Absent}, app_token : {Absent}]
Responses == OkResponses \cup ErrorResponses
NoResponse ==
  [ok |-> TRUE, errorCode |-> "none", message |-> "none", errorMessage |-> "none",
   token |-> "none", app_token |-> "none"]

OutputNames ==
  {"skipped_due_to_workflow_validation_mismatch", "github_token", "contains_trigger",
   "prepare_error", "execution_file", "conclusion", "branch_name"}

\* ------------------------------------------------------------------ paths
\* A file name is a sequence of characters, a path a sequence of names below
\* "/", and a path string the names joined by the separator.
Sep == "/"
DotDot == <<".", ".">>
Dot == <<".">>
\* the names of the test tree: repo, repo-evil (the root's name with a suffix),
\* src, a link inside the repo, a name that does not exist, the secret file,
\* a second name for the repo, a directory that does not exist
RepoName == <<"r">>
EvilName == <<"r", "e">>
SrcName == <<"s">>
LinkName == <<"l">>
NewName == <<"n">>
SecretName == <<"x">>
AliasName == <<"k">>
MissingName == <<"z">>

\* longest candidate, in segments
MaxSegs == 3
\* symbolic links followed by one lookup before it fails with ELOOP
MaxLinks == 2

Dir == [kind |-> "dir", target |-> <<>>]
File == [kind |-> "file", target |-> <<>>]
Link(t) == [kind |-> "link", target |-> t]

\* /repo, /repo/src, /repo-evil, /repo-evil/secret, and /alias -> /repo
BasePaths ==
  {<<RepoName>>, <<RepoName, SrcName>>, <<EvilName>>, <<EvilName, SecretName>>,
   <<AliasName>>}
BaseFs ==
  [p \in BasePaths |->
     IF p = <<AliasName>> THEN Link(<<RepoName>>)
     ELSE IF p = <<EvilName, SecretName>> THEN File
     ELSE Dir]

\* where /repo/link may point: a file outside, a directory outside, a
\* directory inside, a missing name outside, a missing name inside, itself
LinkTargets ==
  {<<EvilName, SecretName>>, <<EvilName>>, <<RepoName, SrcName>>,
   <<EvilName, NewName>>, <<RepoName, NewName>>, <<RepoName, LinkName>>}
WithLink(t) ==
  [p \in BasePaths \cup {<<RepoName, LinkName>>} |->
     IF p = <<RepoName, LinkName>> THEN Link(t) ELSE BaseFs[p]]
FileSystems == {BaseFs} \cup {WithLink(t) : t \in LinkTargets}

\* repoRoot: the repo, a symbolic link to it, a directory that does not exist
Roots == {<<RepoName>>, <<AliasName>>, <<MissingName>>}

Segments == {DotDot, Dot, SrcName, LinkName, NewName, RepoName, EvilName}
SeqsUpTo(S, n) == UNION {[1..k -> S] : k \in 0..n}
\* filePath: relative or absolute, split at the separators
Candidates == [absolute : BOOLEAN, segs : SeqsUpTo(Segments, MaxSegs)]

\* the two errors of the validator (the source puts the offending path, in
\* quotes, after the first word)
RootNotFoundMessage == "Repository root does not exist"
OutsideRootMessage == "Path resolves outside the repository root"
PathOk(p) == [kind |-> "return", path |-> p, message |-> ""]
PathError(msg) == [kind |-> "throw", path |-> <<>>, message |-> msg]
NoPathResult == [kind |-> "none", path |-> <<>>, message |-> ""]
NotReached == [mode |-> "none", ok |-> FALSE, path |-> <<>>]

\* ------------------------------------------------------------------ branch names
\* a branch name is a tuple of characters: "a", "l", "o", "c", "k" are
\* alphanumerics, ";" is a shell metacharacter, " " white space, "NUL" a
\* control byte, "~" a character git reserves
\* variant: "@" is allowed as well
AllowedChars_WithAt == {"a", "l", "o", "c", "k", "-", "_", "/", ".", "@"}
AllowedChars == {"a", "l", "o", "c", "k", "-", "_", "/", "."}
ShellChars == {";", "NUL", " "}
BranchChars == {"a", "-", "_", "/", ".", " ", ";", "@", "{", "~", "NUL"}
\* every name of up to MaxName characters
MaxName == 3
\* names that end like a lock file, or nearly: a stem of up to MaxStem characters
MaxStem == 2
\* with them the shapes of "feature/new-thing" and "v1.0.0"
BranchNames ==
  SeqsUpTo(BranchChars, MaxName)
    \cup {stem \o suffix :
            stem \in SeqsUpTo(BranchChars, MaxStem),
            suffix \in {<<".", "l", "o", "c", "k">>, <<".", "l", "o", "c">>,
                        <<"l", "o", "c", "k">>}}
    \cup {<<"a", "/", "a", "-", "a">>, <<"a", "a", ".", "a", ".", "a">>}
BranchOk == [kind |-> "return", message |-> ""]
BranchError(msg) == [kind |-> "throw", message |-> msg]
NoBranchResult == [kind |-> "none", message |-> ""]

\* ------------------------------------------------------------------ permissions
\* a string is a tuple of tokens: a word ("contents", "read", "__proto__"),
\* a colon, a blank or a line feed ("NL")
\* every string of up to MaxRaw tokens
MaxRaw == 4
\* two lines of up to MaxLine tokens each
MaxLine == 3
\* with them a line padded with blanks, a value that holds a colon, a line
\* whose key is __proto__ after a line that is kept, and "actions: admin"
RawStrings ==
  SeqsUpTo({"contents", "read", "__proto__", ":", " ", "NL"}, MaxRaw)
    \cup {first \o <<"NL">> \o second :
            first \in SeqsUpTo({"contents", "read", ":", " "}, MaxLine),
            second \in SeqsUpTo({"contents", "read", ":", " "}, MaxLine)}
    \cup {<<" ", "contents", " ", ":", " ", "read", " ">>,
          <<"read", ":", "read", ":", "read">>,
          <<"read", ":", "read", "NL", "__proto__", ":", "read">>,
          <<"actions", ":", " ", "admin">>}
\* process.env.ADDITIONAL_PERMISSIONS: not set, or a string
Unset == [set |-> FALSE, value |-> <<>>]
\* an object without own properties
EmptyObject == [key \in {} |-> <<>>]
NoOverlay == [defined |-> FALSE, overlay |-> EmptyObject]
NoBody == [present |-> FALSE, permissions |-> EmptyObject]

\* ------------------------------------------------------------------ actors
\* an actor name or a pattern is a tuple of tokens: the words "user1" and
\* "User1", the suffixes "[bot]" and "-bot", and the asterisk
\* every name of up to MaxActor tokens
MaxActor == 2
ActorNames == SeqsUpTo({"user1", "User1", "[bot]", "-bot", "*"}, MaxActor)
\* include and exclude lists of up to MaxList patterns: an exact name, the
\* wildcard, the name of a bot
MaxList == 2
ActorLists ==
  SeqsUpTo({<<"user1">>, <<"*", "[bot]">>, <<"user1", "[bot]">>}, MaxList)
\* filter strings of up to MaxFilter tokens, commas and blanks among them
MaxFilter == 5
FilterStrings == SeqsUpTo({"user1", "[bot]", "*", ",", " "}, MaxFilter)

\* ------------------------------------------------------------------ state
VARIABLES
  pc,               \* position of the single thread of control
  entrypoint,       \* "run" (run.ts) or "prepare" (prepare.ts)
  modeName,         \* detectMode(context): "tag" or "agent"
  context,          \* parsed GitHub context (fields the orchestrator reads)
  env,              \* process environment read by the orchestrator
  contextParsed,    \* run(): `context` has been assigned
  githubToken,      \* run(): let githubToken
  octokit,          \* run(): `octokit` has been assigned
  commentId,        \* run(): let commentId
  claudeBranch,     \* run(): let claudeBranch
  executionFile,    \* run(): let executionFile
  claudeSuccess,    \* run(): let claudeSuccess
  prepareSuccess,   \* run(): let prepareSuccess
  prepareError,     \* run(): let prepareError
  prepareCompleted, \* run(): let prepareCompleted
  thrown,           \* the error in flight / last caught by the top-level handler
  failed,           \* core.setFailed has been called
  failMessage,      \* message given to core.setFailed
  exitCode,         \* process.exit code as a string (Undefined while running)
  outputs,          \* core.setOutput sink
  processEnv,       \* process.env.GITHUB_TOKEN / GH_TOKEN written by run()
  attempt,          \* retryWithBackoff: invocations made by the retry in progress
  lastError,        \* retryWithBackoff: lastError
  lastResponse,     \* exchangeForAppToken: response seen by the latest attempt
  oidcRequested,    \* getOidcToken has been invoked
  exchangeRequested, \* exchangeForAppToken has been invoked
  actorPermission,  \* permission level the host reports for the actor
  writeGate,        \* write-permission gate: "notEvaluated", "passed", "denied", "error"
  actorType,        \* account type the host reports for the actor
  humanGate,        \* human/allowed-bot gate: "notEvaluated", "passed", "rejected", "error"
  containsTrigger,  \* containsTrigger.toString() (Undefined before the check)
  effects,          \* side effects of preparation performed so far
  trackingComment,  \* id of the tracking comment created on the host
  prepResult,       \* result under construction / returned by preparation
  called,           \* preparation: the git-config functions it has called
  tagModeTools,     \* prepareTagMode: const tagModeTools, and what was pushed to it
  installAttempt,   \* installClaudeCode: failed attempts of the loop in progress
  workloadRuns,     \* invocations of runClaude
  phaseLog,         \* phases in the order they started
  cleanupLog,       \* cleanup steps performed / errors logged by cleanup
  atCleanup,        \* snapshot of the outcome when the cleanup block is entered
  fs,               \* the filesystem the path validator looks at
  repoRoot,         \* validatePathWithinRepo: repoRoot
  filePath,         \* validatePathWithinRepo: filePath
  pathResult,       \* validatePathWithinRepo: the path returned or the error thrown
  reached,          \* where an access through the returned path ends up
  branchName,       \* validateBranchName: branchName
  branchResult,     \* validateBranchName: returned normally, or the error thrown
  additionalPermissions, \* process.env.ADDITIONAL_PERMISSIONS
  permissions,      \* setupGitHubToken: const permissions
  requestBody,      \* exchangeForAppToken: fetchOptions.body
  filterString,     \* parseActorFilter: filterString
  filterList,       \* parseActorFilter: the list returned
  actor,            \* actorMatchesPattern, shouldIncludeCommentByActor: actor
  pattern,          \* actorMatchesPattern: pattern
  matches,          \* actorMatchesPattern: the value returned
  includeActors,    \* shouldIncludeCommentByActor: includeActors
  excludeActors,    \* shouldIncludeCommentByActor: excludeActors
  included,         \* shouldIncludeCommentByActor: the value returned
  linkEnv,          \* update-comment-link.ts run(): the process.env it reads
  linkParams,       \* updateCommentLink: params
  linkFile,         \* what is on disk at params.outputFile
  linkResult,       \* updateCommentLink: actionFailed, errorDetails, executionDetails
  signingKey,       \* setupSshSigning: sshSigningKey
  sshDir,           \* the directory ~/.ssh exists
  keyFile,          \* the file at SSH_SIGNING_KEY_PATH: whether it exists, and its content
  gitSigning,       \* the git config keys that setupSshSigning has set
  sshResult         \* the last git-config call: returned or threw, and its message

inputVars == <<entrypoint, modeName, context, env>>
runVars == <<contextParsed, githubToken, octokit, commentId, claudeBranch, executionFile,
             claudeSuccess, prepareSuccess, prepareError, prepareCompleted>>
outcomeVars == <<thrown, failed, failMessage, exitCode, outputs, processEnv>>
\* attempt, lastError and lastResponse describe the retry in progress, or the
\* one that just ended; they are discarded when the entrypoint takes the token
retryVars == <<attempt, lastError, lastResponse, oidcRequested, exchangeRequested>>
prepVars == <<effects, trackingComment, prepResult, called, tagModeTools>>
gateVars == <<actorPermission, writeGate, actorType, humanGate>>
miscVars == <<gateVars, containsTrigger, installAttempt, workloadRuns, phaseLog,
              cleanupLog, atCleanup>>
\* state of the utility functions that are called outside the orchestrator
pathVars == <<fs, repoRoot, filePath, pathResult, reached>>
branchVars == <<branchName, branchResult>>
permVars == <<additionalPermissions, permissions, requestBody>>
actorVars == <<filterString, filterList, actor, pattern, matches, includeActors,
               excludeActors, included>>
\* state of the steps that run after the orchestrator, and of their functions
stepVars == <<linkEnv, linkParams, linkFile, linkResult,
              signingKey, sshDir, keyFile, gitSigning, sshResult>>
utilVars == <<pathVars, branchVars, permVars, actorVars, stepVars>>
vars == <<pc, inputVars, runVars, outcomeVars, retryVars, prepVars, miscVars, utilVars>>

\* no key, a well-formed private key, a malformed key
SshKeys == {"", "BEGIN OPENSSH PRIVATE KEY", "not a key"}

Contexts ==
  [isEntity : BOOLEAN,            \* isEntityContext(context)
   allowedBotsMatch : BOOLEAN,    \* the actor's name matches inputs.allowedBots
   allowedNonWriteUser : BOOLEAN, \* the actor is listed in inputs.allowedNonWriteUsers
   prompt : {"", "do it"},        \* context.inputs.prompt
   sshSigningKey : SshKeys,       \* context.inputs.sshSigningKey
   useCommitSigning : BOOLEAN]    \* context.inputs.useCommitSigning

Envs ==
  [OVERRIDE_GITHUB_TOKEN : {"", OverrideToken}]

\* run() has not assigned any of its locals, nothing has been put out
Fresh ==
  /\ contextParsed = FALSE
  /\ githubToken = Undefined
  /\ octokit = FALSE
  /\ commentId = Undefined
  /\ claudeBranch = Undefined
  /\ executionFile = Undefined
  /\ claudeSuccess = FALSE
  /\ prepareSuccess = TRUE
  /\ prepareError = Undefined
  /\ prepareCompleted = FALSE
  /\ thrown = NoError
  /\ failed = FALSE
  /\ failMessage = Undefined
  /\ exitCode = Undefined
  /\ outputs = [n \in OutputNames |-> Absent]
  /\ processEnv = [GITHUB_TOKEN |-> Absent, GH_TOKEN |-> Absent]
  /\ attempt = 0
  /\ lastError = NoError
  /\ lastResponse = NoResponse
  /\ oidcRequested = FALSE
  /\ exchangeRequested = FALSE
  /\ actorPermission = Undefined
  /\ writeGate = "notEvaluated"
  /\ actorType = Undefined
  /\ humanGate = "notEvaluated"
  /\ containsTrigger = Undefined
  /\ effects = {}
  /\ trackingComment = Undefined
  /\ prepResult = [commentId |-> Undefined, claudeBranch |-> Undefined]
  /\ called = {}
  /\ tagModeTools = [initial |-> {}, pushed |-> {}]
  /\ installAttempt = 0
  /\ workloadRuns = 0
  /\ phaseLog = <<>>
  /\ cleanupLog = <<>>
  /\ atCleanup = [failed |-> FALSE, failMessage |-> Undefined]

\* the path validator has not been called
PathIdle ==
  /\ fs = BaseFs
  /\ repoRoot = <<RepoName>>
  /\ filePath = [absolute |-> FALSE, segs |-> <<>>]
  /\ pathResult = NoPathResult
  /\ reached = NotReached

\* the branch-name validator has not been called
BranchIdle ==
  /\ branchName = <<>>
  /\ branchResult = NoBranchResult

\* the permissions have not been parsed
PermIdle ==
  /\ additionalPermissions = Unset
  /\ permissions = NoOverlay
  /\ requestBody = NoBody

\* no function of the actor filter has been called
ActorIdle ==
  /\ filterString = <<>>
  /\ filterList = <<>>
  /\ actor = <<>>
  /\ pattern = <<>>
  /\ matches = FALSE
  /\ includeActors = <<>>
  /\ excludeActors = <<>>
  /\ included = FALSE

\* updateCommentLink and the SSH signing functions have not been called
StepIdle ==
  /\ linkEnv = [PREPARE_SUCCESS |-> Absent, PREPARE_ERROR |-> Absent,
                CLAUDE_SUCCESS |-> Absent, OUTPUT_FILE |-> Absent]
  /\ linkParams = [prepareSuccess |-> TRUE, prepareError |-> Undefined,
                   claudeSuccess |-> TRUE, outputFile |-> Undefined]
  /\ linkFile = "missing"
  /\ linkResult = [called |-> FALSE, actionFailed |-> FALSE,
                   errorDetails |-> Undefined, executionDetails |-> "null"]
  /\ signingKey = <<>>
  /\ sshDir = FALSE
  /\ keyFile = [exists |-> FALSE, content |-> <<>>]
  /\ gitSigning = {}
  /\ sshResult = [op |-> "none", kind |-> "none", message |-> ""]

Init ==
  /\ pc = "start"
  /\ entrypoint \in {"run", "prepare"}
  /\ modeName \in {"tag", "agent"}
  /\ context \in Contexts
  /\ env \in Envs
  /\ Fresh
  /\ StepIdle
  /\ PathIdle
  /\ BranchIdle
  /\ PermIdle
  /\ ActorIdle

\* ------------------------------------------------------------------ helpers
setOutput(name, value) == [outputs EXCEPT ![name] = value]

\* JavaScript truthiness of an optional string
Truthy(s) == s # Absent /\ s # Undefined /\ s # ""

\* the catch clause that receives an exception thrown at `site`: run.ts wraps
\* setupGitHubToken in an inner try/catch, prepare.ts has only the outer one
Handler(site) ==
  IF site = "token" /\ entrypoint = "run" THEN "token_catch" ELSE "catch"

Throw(e, site) ==
  /\ thrown' = e
  /\ pc' = Handler(site)

Returned(v) == [kind |-> "return", value |-> v, error |-> NoError]
Raised(e) == [kind |-> "throw", value |-> Undefined, error |-> e]

\* ------------------------------------------------------------------ token.ts
\* variant: every non-success response raises the skip signal
exchangeForAppToken_AnyErrorSkips(r) ==
  IF ~r.ok
  THEN IF TRUE
       THEN Raised(SkipErr(IF r.message # Absent THEN r.message
                           ELSE IF r.errorMessage # Absent THEN r.errorMessage
                           ELSE "Workflow validation failed"))
       ELSE Raised(Err(IF r.errorMessage # Absent THEN r.errorMessage
                       ELSE "Unknown error"))
  ELSE LET appToken == IF Truthy(r.token) THEN r.token ELSE r.app_token
       IN IF ~Truthy(appToken)
          THEN Raised(Err("App token not found in response"))
          ELSE Returned(appToken)

\* variant: app_token is preferred over token
exchangeForAppToken_PrefersAppToken(r) ==
  IF ~r.ok
  THEN IF r.errorCode = WorkflowNotFound
       THEN Raised(SkipErr(IF r.message # Absent THEN r.message
                           ELSE IF r.errorMessage # Absent THEN r.errorMessage
                           ELSE "Workflow validation failed"))
       ELSE Raised(Err(IF r.errorMessage # Absent THEN r.errorMessage
                       ELSE "Unknown error"))
  ELSE LET appToken == IF Truthy(r.app_token) THEN r.app_token ELSE r.token
       IN IF ~Truthy(appToken)
          THEN Raised(Err("App token not found in response"))
          ELSE Returned(appToken)

\* variant: an ordinary failure carries the top-level message of the body
exchangeForAppToken_TopLevelMessage(r) ==
  IF ~r.ok
  THEN IF r.errorCode = WorkflowNotFound
       THEN Raised(SkipErr(IF r.message # Absent THEN r.message
                           ELSE IF r.errorMessage # Absent THEN r.errorMessage
                           ELSE "Workflow validation failed"))
       ELSE Raised(Err(IF r.message # Absent THEN r.message
                       ELSE IF r.errorMessage # Absent THEN r.errorMessage
                       ELSE "Unknown error"))
  ELSE LET appToken == IF Truthy(r.token) THEN r.token ELSE r.app_token
       IN IF ~Truthy(appToken)
          THEN Raised(Err("App token not found in response"))
          ELSE Returned(appToken)

\* exchangeForAppToken: what one call does with the endpoint's response
exchangeForAppToken(r) ==
  IF ~r.ok
  THEN IF r.errorCode = WorkflowNotFound
       THEN Raised(SkipErr(IF r.message # Absent THEN r.message
                           ELSE IF r.errorMessage # Absent THEN r.errorMessage
                           ELSE "Workflow validation failed"))
       ELSE Raised(Err(IF r.errorMessage # Absent THEN r.errorMessage
                       ELSE "Unknown error"))
  ELSE LET appToken == IF Truthy(r.token) THEN r.token ELSE r.app_token
       IN IF ~Truthy(appToken)
          THEN Raised(Err("App token not found in response"))
          ELSE Returned(appToken)

\* variant: the failure of core.getIDToken is rethrown as it came
getOidcToken_RethrowsCause(ok) ==
  IF ok THEN Returned("oidc-token") ELSE Raised(Err("getIDToken failed"))

\* getOidcToken: core.getIDToken either answers or fails; every failure is
\* rethrown with the remediation hint
getOidcToken(ok) ==
  IF ok THEN Returned("oidc-token") ELSE Raised(Err(OidcFailureMessage))

\* variant: the attempt cap is off by one
retryWithBackoff_OneAttemptMore(result, attemptNo) ==
  IF result.kind = "return" THEN "return"
  ELSE IF result.error.kind = "WorkflowValidationSkipError" THEN "raise"
  ELSE IF attemptNo <= MaxAttempts THEN "retry"
  ELSE "raise"

\* retryWithBackoff (utils/retry): what the wrapper does after attempt number
\* attemptNo ended with `result`
retryWithBackoff(result, attemptNo) ==
  IF result.kind = "return" THEN "return"
  ELSE IF result.error.kind = "WorkflowValidationSkipError" THEN "raise"
  ELSE IF attemptNo < MaxAttempts THEN "retry"
  ELSE "raise"

\* variant: the override credential is not looked at
SetupGitHubToken_IgnoresOverride ==
  /\ pc = "token"
  /\ phaseLog' = Append(phaseLog, "token")
  /\ githubToken' = githubToken
  /\ pc' = "oidc"
  /\ attempt' = 0
  /\ UNCHANGED <<inputVars, utilVars, contextParsed, octokit, commentId, claudeBranch, executionFile,
                 claudeSuccess, prepareSuccess, prepareError, prepareCompleted,
                 outcomeVars, lastError, lastResponse, oidcRequested, exchangeRequested,
                 prepVars, gateVars, containsTrigger, installAttempt, workloadRuns,
                 cleanupLog, atCleanup>>

\* setupGitHubToken, lines 128-135: override credential or start of the exchange
SetupGitHubToken ==
  /\ pc = "token"
  /\ phaseLog' = Append(phaseLog, "token")
  /\ \/ /\ Truthy(env.OVERRIDE_GITHUB_TOKEN)
        /\ githubToken' = env.OVERRIDE_GITHUB_TOKEN
        /\ pc' = "token_done"
     \/ /\ ~Truthy(env.OVERRIDE_GITHUB_TOKEN)
        /\ githubToken' = githubToken
        /\ pc' = "oidc"
  /\ attempt' = 0
  /\ UNCHANGED <<inputVars, utilVars, contextParsed, octokit, commentId, claudeBranch, executionFile,
                 claudeSuccess, prepareSuccess, prepareError, prepareCompleted,
                 outcomeVars, lastError, lastResponse, oidcRequested, exchangeRequested,
                 prepVars, gateVars, containsTrigger, installAttempt, workloadRuns,
                 cleanupLog, atCleanup>>

\* setupGitHubToken, lines 137-139: one attempt of retryWithBackoff(getOidcToken)
RequestOidcToken ==
  /\ pc = "oidc"
  /\ \E ok \in BOOLEAN :
       LET result == getOidcToken(ok)
           decision == retryWithBackoff(result, attempt + 1)
       IN /\ oidcRequested' = TRUE
          /\ \/ /\ decision = "return"
                /\ pc' = "exchange"
                /\ attempt' = 0
                /\ lastError' = NoError
                /\ UNCHANGED thrown
             \/ /\ decision = "retry"
                /\ pc' = "oidc"
                /\ attempt' = attempt + 1
                /\ lastError' = result.error
                /\ UNCHANGED thrown
             \/ /\ decision = "raise"
                /\ attempt' = attempt + 1
                /\ lastError' = result.error
                /\ Throw(result.error, "token")
  /\ UNCHANGED <<inputVars, utilVars, runVars, failed, failMessage, exitCode, outputs, processEnv,
                 lastResponse, exchangeRequested, prepVars, miscVars>>

\* setupGitHubToken, lines 141-150: one attempt of
\* retryWithBackoff(exchangeForAppToken)
ExchangeForAppToken ==
  /\ pc = "exchange"
  /\ \E r \in Responses :
       LET result == exchangeForAppToken(r)
           decision == retryWithBackoff(result, attempt + 1)
       IN /\ exchangeRequested' = TRUE
          /\ lastResponse' = r
          /\ attempt' = attempt + 1
          /\ \/ /\ decision = "return"
                /\ githubToken' = result.value
                /\ pc' = "token_done"
                /\ UNCHANGED <<lastError, thrown>>
             \/ /\ decision = "retry"
                /\ pc' = "exchange"
                /\ lastError' = result.error
                /\ UNCHANGED <<githubToken, thrown>>
             \/ /\ decision = "raise"
                /\ lastError' = result.error
                /\ Throw(result.error, "token")
                /\ UNCHANGED githubToken
  /\ UNCHANGED <<inputVars, utilVars, contextParsed, octokit, commentId, claudeBranch, executionFile,
                 claudeSuccess, prepareSuccess, prepareError, prepareCompleted,
                 failed, failMessage, exitCode, outputs, processEnv, oidcRequested,
                 prepVars, miscVars>>

\* setupGitHubToken has returned: the locals of the retry are gone
DiscardRetryState ==
  /\ attempt' = 0
  /\ lastError' = NoError
  /\ lastResponse' = NoResponse

\* ------------------------------------------------------------------ gates
\* checkWritePermissions (github/validation/permissions): the gate passes for
\* write-level permission, an allow-listed non-write user, or an override token
checkWritePermissions(permission, allowedNonWriteUser, githubTokenProvided) ==
  permission = "write" \/ allowedNonWriteUser \/ githubTokenProvided

\* checkHumanActor (github/validation/actor): passes for a human account or a
\* bot whose name matches the allowed-bots list
checkHumanActor(type, allowedBotsMatch) ==
  type = "User" \/ allowedBotsMatch

NonHumanActorMessage == "Workflow initiated by non-human actor"

\* the trigger check shared by run.ts lines 181-184 and prepare.ts lines 54-57;
\* `found` is the answer of checkContainsTrigger(context)
ContainsTrigger(found) ==
  IF modeName = "tag" THEN context.isEntity /\ found ELSE context.prompt # ""

\* checkContainsTrigger is only called in tag mode on an entity context
TriggerAnswers ==
  IF modeName = "tag" /\ context.isEntity THEN BOOLEAN ELSE {FALSE}

BoolString(b) == IF b THEN "true" ELSE "false"

\* ------------------------------------------------------------------ run.ts
\* run(), lines 140-146: collect inputs, parse the context, detect the mode
RunParseContext ==
  /\ pc = "start"
  /\ entrypoint = "run"
  /\ phaseLog' = Append(phaseLog, "context")
  /\ \/ /\ contextParsed' = TRUE
        /\ pc' = "token"
        /\ UNCHANGED thrown
     \/ /\ Throw(Err("context error"), "context")
        /\ UNCHANGED contextParsed
  /\ UNCHANGED <<inputVars, utilVars, githubToken, octokit, commentId, claudeBranch, executionFile,
                 claudeSuccess, prepareSuccess, prepareError, prepareCompleted,
                 failed, failMessage, exitCode, outputs, processEnv, retryVars, prepVars,
                 gateVars, containsTrigger, installAttempt, workloadRuns, cleanupLog,
                 atCleanup>>

\* variant: the skip path leaves the process without passing the finally block
RunTokenCatch_SkipExits ==
  /\ pc = "token_catch"
  /\ \/ /\ thrown.kind = "WorkflowValidationSkipError"
        /\ outputs' = setOutput("skipped_due_to_workflow_validation_mismatch", "true")
        /\ pc' = "done"
     \/ /\ thrown.kind # "WorkflowValidationSkipError"
        /\ pc' = "catch"
        /\ UNCHANGED outputs
  /\ UNCHANGED <<inputVars, utilVars, runVars, thrown, failed, failMessage, exitCode, processEnv,
                 retryVars, prepVars, miscVars>>

\* variant: the inner catch rethrows every error, the skip signal included
RunTokenCatch_AlwaysRethrows ==
  /\ pc = "token_catch"
  /\ pc' = "catch"
  /\ UNCHANGED outputs
  /\ UNCHANGED <<inputVars, utilVars, runVars, thrown, failed, failMessage, exitCode, processEnv,
                 retryVars, prepVars, miscVars>>

\* run(), lines 150-157: the inner catch around setupGitHubToken
RunTokenCatch ==
  /\ pc = "token_catch"
  /\ \/ /\ thrown.kind = "WorkflowValidationSkipError"
        /\ outputs' = setOutput("skipped_due_to_workflow_validation_mismatch", "true")
        /\ pc' = "finally"
     \/ /\ thrown.kind # "WorkflowValidationSkipError"
        /\ pc' = "catch"
        /\ UNCHANGED outputs
  /\ UNCHANGED <<inputVars, utilVars, runVars, thrown, failed, failMessage, exitCode, processEnv,
                 retryVars, prepVars, miscVars>>

\* variant: only GITHUB_TOKEN is written to the process environment
RunCreateOctokit_OnlyGitHubToken ==
  /\ pc = "token_done"
  /\ entrypoint = "run"
  /\ octokit' = TRUE
  /\ processEnv' = [processEnv EXCEPT !.GITHUB_TOKEN = githubToken]
  /\ pc' = "perm"
  /\ DiscardRetryState
  /\ UNCHANGED <<inputVars, utilVars, contextParsed, githubToken, commentId, claudeBranch,
                 executionFile, claudeSuccess, prepareSuccess, prepareError,
                 prepareCompleted, thrown, failed, failMessage, exitCode, outputs,
                 oidcRequested, exchangeRequested, prepVars, miscVars>>

\* run(), lines 159-163: createOctokit and the process environment
RunCreateOctokit ==
  /\ pc = "token_done"
  /\ entrypoint = "run"
  /\ octokit' = TRUE
  /\ processEnv' = [GITHUB_TOKEN |-> githubToken, GH_TOKEN |-> githubToken]
  /\ pc' = "perm"
  /\ DiscardRetryState
  /\ UNCHANGED <<inputVars, utilVars, contextParsed, githubToken, commentId, claudeBranch,
                 executionFile, claudeSuccess, prepareSuccess, prepareError,
                 prepareCompleted, thrown, failed, failMessage, exitCode, outputs,
                 oidcRequested, exchangeRequested, prepVars, miscVars>>

\* variant: a denied actor is not stopped
WritePermissionStep_DeniedContinues ==
  IF context.isEntity
  THEN /\ phaseLog' = Append(phaseLog, "permission")
       /\ \/ \E permission \in {"write", "read"} :
               /\ actorPermission' = permission
               /\ IF checkWritePermissions(permission, context.allowedNonWriteUser,
                                           Truthy(env.OVERRIDE_GITHUB_TOKEN))
                  THEN /\ writeGate' = "passed"
                       /\ pc' = "trigger"
                       /\ UNCHANGED thrown
                  ELSE /\ writeGate' = "denied"
                       /\ pc' = "trigger"
                       /\ UNCHANGED thrown
          \/ /\ writeGate' = "error"
             /\ Throw(Err("permission check failed"), "permission")
             /\ UNCHANGED actorPermission
  ELSE /\ pc' = "trigger"
       /\ UNCHANGED <<phaseLog, actorPermission, writeGate, thrown>>

\* the write-permission step shared in shape by run.ts 165-178 and
\* prepare.ts 36-51: only entity contexts are checked
WritePermissionStep ==
  IF context.isEntity
  THEN /\ phaseLog' = Append(phaseLog, "permission")
       /\ \/ \E permission \in {"write", "read"} :
               /\ actorPermission' = permission
               /\ IF checkWritePermissions(permission, context.allowedNonWriteUser,
                                           Truthy(env.OVERRIDE_GITHUB_TOKEN))
                  THEN /\ writeGate' = "passed"
                       /\ pc' = "trigger"
                       /\ UNCHANGED thrown
                  ELSE /\ writeGate' = "denied"
                       /\ Throw(Err(NoWritePermissionMessage), "permission")
          \/ /\ writeGate' = "error"
             /\ Throw(Err("permission check failed"), "permission")
             /\ UNCHANGED actorPermission
  ELSE /\ pc' = "trigger"
       /\ UNCHANGED <<phaseLog, actorPermission, writeGate, thrown>>

\* run(), lines 165-178
RunCheckWritePermissions ==
  /\ pc = "perm"
  /\ entrypoint = "run"
  /\ WritePermissionStep
  /\ UNCHANGED <<inputVars, utilVars, runVars, failed, failMessage, exitCode, outputs, processEnv,
                 retryVars, prepVars, actorType, humanGate, containsTrigger,
                 installAttempt, workloadRuns, cleanupLog, atCleanup>>

\* variant: the early return of the no-trigger branch is missing
RunCheckTrigger_NoEarlyReturn ==
  /\ pc = "trigger"
  /\ entrypoint = "run"
  /\ phaseLog' = Append(phaseLog, "trigger")
  /\ \E found \in TriggerAnswers :
       /\ containsTrigger' = BoolString(ContainsTrigger(found))
       /\ IF ~ContainsTrigger(found)
          THEN /\ outputs' = setOutput("github_token", githubToken)
               /\ pc' = "prepare"
          ELSE /\ pc' = "prepare"
               /\ UNCHANGED outputs
  /\ UNCHANGED <<inputVars, utilVars, runVars, thrown, failed, failMessage, exitCode, processEnv,
                 retryVars, prepVars, gateVars, installAttempt, workloadRuns, cleanupLog,
                 atCleanup>>

\* run(), lines 180-193: trigger check and the early, successful exit
RunCheckTrigger ==
  /\ pc = "trigger"
  /\ entrypoint = "run"
  /\ phaseLog' = Append(phaseLog, "trigger")
  /\ \E found \in TriggerAnswers :
       /\ containsTrigger' = BoolString(ContainsTrigger(found))
       /\ IF ~ContainsTrigger(found)
          THEN /\ outputs' = setOutput("github_token", githubToken)
               /\ pc' = "finally"
          ELSE /\ pc' = "prepare"
               /\ UNCHANGED outputs
  /\ UNCHANGED <<inputVars, utilVars, runVars, thrown, failed, failMessage, exitCode, processEnv,
                 retryVars, prepVars, gateVars, installAttempt, workloadRuns, cleanupLog,
                 atCleanup>>

\* ------------------------------------------------------------------ preparation
\* both modes: SSH signing takes precedence over API commit signing
useSshSigning == context.sshSigningKey # ""
\* variant: API commit signing whenever it is asked for
useApiCommitSigning_DespiteSshKey == context.useCommitSigning
useApiCommitSigning == context.useCommitSigning /\ ~useSshSigning

\* setupSshSigning, lines 70-79: the key-format validation
ValidSshKey(k) == k = "BEGIN OPENSSH PRIVATE KEY"

\* the human/allowed-bot gate as both modes call it: the host reports the
\* actor's account type (or the lookup fails), then the gate decides
HumanActorStep(next) ==
  \/ \E type \in {"User", "Bot"} :
       /\ actorType' = type
       /\ IF checkHumanActor(type, context.allowedBotsMatch)
          THEN /\ humanGate' = "passed"
               /\ pc' = next
               /\ UNCHANGED thrown
          ELSE /\ humanGate' = "rejected"
               /\ Throw(Err(NonHumanActorMessage), "prepare")
  \/ /\ humanGate' = "error"
     /\ Throw(Err("actor lookup failed"), "prepare")
     /\ UNCHANGED actorType

\* setupSshSigning (git-config.ts 67-100) as a step of preparation: rejects a
\* malformed key before any effect, writes the key file, then configures git
SshSigningStep(next) ==
  /\ called' = called \cup {"setupSshSigning"}
  /\ IF ~ValidSshKey(context.sshSigningKey)
     THEN /\ Throw(Err("Invalid SSH private key format"), "prepare")
          /\ UNCHANGED effects
     ELSE \/ /\ effects' = effects \cup {"sshKey", "gitConfig"}
             /\ pc' = next
             /\ UNCHANGED thrown
          \/ /\ effects' = effects \cup {"sshKey"}
             /\ Throw(Err("git config failed"), "prepare")
          \/ /\ Throw(Err("cannot write key"), "prepare")
             /\ UNCHANGED effects

\* variant: the tracking comment is created before the actor is checked
TagCheckHumanActor_CommentFirst ==
  /\ pc = "prepare"
  /\ modeName = "tag"
  /\ phaseLog' = Append(phaseLog, "prepare")
  /\ IF ~context.isEntity
     THEN /\ Throw(Err("Tag mode requires entity context"), "prepare")
          /\ UNCHANGED <<actorType, humanGate>>
     ELSE HumanActorStep("tag_comment")
  /\ trackingComment' = "comment-1"
  /\ effects' = effects \cup {"comment"}
  /\ prepResult' = [prepResult EXCEPT !.commentId = "comment-1"]
  /\ UNCHANGED <<called, tagModeTools, inputVars, utilVars, runVars, failed, failMessage, exitCode, outputs, processEnv,
                 retryVars, actorPermission, writeGate, containsTrigger,
                 installAttempt, workloadRuns, cleanupLog, atCleanup>>

\* prepareTagMode, lines 36-42: entity check, then the human-actor gate
TagCheckHumanActor ==
  /\ pc = "prepare"
  /\ modeName = "tag"
  /\ phaseLog' = Append(phaseLog, "prepare")
  /\ IF ~context.isEntity
     THEN /\ Throw(Err("Tag mode requires entity context"), "prepare")
          /\ UNCHANGED <<actorType, humanGate>>
     ELSE HumanActorStep("tag_comment")
  /\ UNCHANGED <<inputVars, utilVars, runVars, failed, failMessage, exitCode, outputs, processEnv,
                 retryVars, prepVars, actorPermission, writeGate, containsTrigger,
                 installAttempt, workloadRuns, cleanupLog, atCleanup>>

\* prepareTagMode, lines 44-46: createInitialComment
TagCreateInitialComment ==
  /\ pc = "tag_comment"
  /\ \/ /\ trackingComment' = "comment-1"
        /\ effects' = effects \cup {"comment"}
        /\ prepResult' = [prepResult EXCEPT !.commentId = "comment-1"]
        /\ pc' = "tag_data"
        /\ UNCHANGED <<thrown, called, tagModeTools>>
     \/ /\ Throw(Err("create comment failed"), "prepare")
        /\ UNCHANGED prepVars
  /\ UNCHANGED <<inputVars, utilVars, runVars, failed, failMessage, exitCode, outputs, processEnv,
                 retryVars, miscVars>>

\* prepareTagMode, lines 48-63: fetchGitHubData
TagFetchGitHubData ==
  /\ pc = "tag_data"
  /\ \/ /\ pc' = "tag_branch"
        /\ UNCHANGED thrown
     \/ Throw(Err("fetch data failed"), "prepare")
  /\ UNCHANGED <<inputVars, utilVars, runVars, failed, failMessage, exitCode, outputs, processEnv,
                 retryVars, prepVars, miscVars>>

\* prepareTagMode, lines 65-66: setupBranch (a new branch or the existing one)
TagSetupBranch ==
  /\ pc = "tag_branch"
  /\ \/ /\ prepResult' = [prepResult EXCEPT !.claudeBranch = "claude/issue-1"]
        /\ effects' = effects \cup {"branch"}
        /\ pc' = "tag_git"
        /\ UNCHANGED thrown
     \/ /\ pc' = "tag_git"
        /\ UNCHANGED <<prepResult, effects, thrown>>
     \/ /\ Throw(Err("setup branch failed"), "prepare")
        /\ UNCHANGED <<prepResult, effects>>
  /\ UNCHANGED <<inputVars, utilVars, runVars, failed, failMessage, exitCode, outputs, processEnv,
                 retryVars, trackingComment, called, tagModeTools, miscVars>>

\* prepareTagMode, lines 68-75: setupSshSigning when a key is given
TagSetupSshSigning ==
  /\ pc = "tag_git"
  /\ IF useSshSigning
     THEN SshSigningStep("tag_gitauth")
     ELSE /\ pc' = "tag_gitauth"
          /\ UNCHANGED <<effects, thrown, called>>
  /\ UNCHANGED <<inputVars, utilVars, runVars, failed, failMessage, exitCode, outputs, processEnv,
                 retryVars, trackingComment, prepResult, tagModeTools, miscVars>>

\* variant: tag mode logs a failure of configureGitAuth and continues
TagConfigureGitAuth_ContinuesAnyway ==
  /\ pc = "tag_gitauth"
  /\ IF useSshSigning \/ ~useApiCommitSigning
     THEN /\ called' = called \cup {"configureGitAuth"}
          /\ \/ effects' = effects \cup {"gitConfig"}
             \/ effects' = effects \cup {"gitAuthFailureLogged"}
     ELSE UNCHANGED <<effects, called>>
  /\ pc' = "tag_prompt"
  /\ UNCHANGED <<inputVars, utilVars, runVars, outcomeVars, retryVars, trackingComment, prepResult,
                 tagModeTools, miscVars>>

\* prepareTagMode, lines 77-101: configureGitAuth unless API commit signing is
\* used; a failure is logged and re-raised
TagConfigureGitAuth ==
  /\ pc = "tag_gitauth"
  /\ IF useSshSigning \/ ~useApiCommitSigning
     THEN /\ called' = called \cup {"configureGitAuth"}
          /\ \/ /\ effects' = effects \cup {"gitConfig"}
                /\ pc' = "tag_prompt"
                /\ UNCHANGED thrown
             \/ /\ Throw(Err("configure git auth failed"), "prepare")
                /\ UNCHANGED effects
     ELSE /\ pc' = "tag_prompt"
          /\ UNCHANGED <<effects, thrown, called>>
  /\ UNCHANGED <<inputVars, utilVars, runVars, failed, failMessage, exitCode, outputs, processEnv,
                 retryVars, trackingComment, prepResult, tagModeTools, miscVars>>

\* prepareTagMode, lines 103-110: createPrompt
TagCreatePrompt ==
  /\ pc = "tag_prompt"
  /\ \/ /\ effects' = effects \cup {"promptFile"}
        /\ pc' = "tag_mcp"
        /\ UNCHANGED thrown
     \/ /\ Throw(Err("create prompt failed"), "prepare")
        /\ UNCHANGED effects
  /\ UNCHANGED <<inputVars, utilVars, runVars, failed, failMessage, exitCode, outputs, processEnv,
                 retryVars, trackingComment, prepResult, called, tagModeTools, miscVars>>

\* prepareTagMode, lines 112-188: the tools (the required ones and the
\* mcp__github_ tools the user allows in CLAUDE_ARGS, then the git commands or
\* the file-ops tools are pushed), prepareMcpConfig and the result
TagPrepareMcpConfig ==
  /\ pc = "tag_mcp"
  /\ \E userAllowedMCPTools \in
          SUBSET {"mcp__github_file_ops__commit_files"} :
       tagModeTools' =
         [initial |-> {"Edit", "MultiEdit", "Glob", "Grep", "LS", "Read", "Write",
                       "mcp__github_comment__update_claude_comment",
                       "mcp__github_ci__get_ci_status",
                       "mcp__github_ci__get_workflow_run_details",
                       "mcp__github_ci__download_job_log"} \cup userAllowedMCPTools,
          pushed |-> IF ~useApiCommitSigning
                     THEN {"Bash(git add:*)", "Bash(git commit:*)", "Bash(git push:*)",
                           "Bash(git status:*)", "Bash(git diff:*)", "Bash(git log:*)",
                           "Bash(git rm:*)"}
                     ELSE {"mcp__github_file_ops__commit_files",
                           "mcp__github_file_ops__delete_files"}]
  /\ \/ /\ pc' = "prepare_done"
        /\ UNCHANGED thrown
     \/ Throw(Err("mcp config failed"), "prepare")
  /\ UNCHANGED <<inputVars, utilVars, runVars, failed, failMessage, exitCode, outputs, processEnv,
                 retryVars, effects, trackingComment, prepResult, called, miscVars>>

\* prepareAgentMode, lines 28-29: the human-actor gate
AgentCheckHumanActor ==
  /\ pc = "prepare"
  /\ modeName = "agent"
  /\ phaseLog' = Append(phaseLog, "prepare")
  /\ HumanActorStep("agent_git")
  /\ UNCHANGED <<inputVars, utilVars, runVars, failed, failMessage, exitCode, outputs, processEnv,
                 retryVars, prepVars, actorPermission, writeGate, containsTrigger,
                 installAttempt, workloadRuns, cleanupLog, atCleanup>>

\* prepareAgentMode, lines 31-38: setupSshSigning when a key is given
AgentSetupSshSigning ==
  /\ pc = "agent_git"
  /\ IF useSshSigning
     THEN SshSigningStep("agent_gitauth")
     ELSE /\ pc' = "agent_gitauth"
          /\ UNCHANGED <<effects, thrown, called>>
  /\ UNCHANGED <<inputVars, utilVars, runVars, failed, failMessage, exitCode, outputs, processEnv,
                 retryVars, trackingComment, prepResult, tagModeTools, miscVars>>

\* prepareAgentMode, lines 40-65: configureGitAuth unless API commit signing
\* is used; a failure is logged and preparation continues
AgentConfigureGitAuth ==
  /\ pc = "agent_gitauth"
  /\ IF useSshSigning \/ ~useApiCommitSigning
     THEN /\ called' = called \cup {"configureGitAuth"}
          /\ \/ effects' = effects \cup {"gitConfig"}
             \/ effects' = effects \cup {"gitAuthFailureLogged"}
     ELSE UNCHANGED <<effects, called>>
  /\ pc' = "agent_prompt"
  /\ UNCHANGED <<inputVars, utilVars, runVars, outcomeVars, retryVars, trackingComment, prepResult,
                 tagModeTools, miscVars>>

\* prepareAgentMode, lines 67-80: prompt directory and prompt file
AgentWritePrompt ==
  /\ pc = "agent_prompt"
  /\ \/ /\ effects' = effects \cup {"promptFile"}
        /\ pc' = "agent_mcp"
        /\ UNCHANGED thrown
     \/ /\ Throw(Err("write prompt failed"), "prepare")
        /\ UNCHANGED effects
  /\ UNCHANGED <<inputVars, utilVars, runVars, failed, failMessage, exitCode, outputs, processEnv,
                 retryVars, trackingComment, prepResult, called, tagModeTools, miscVars>>

\* prepareAgentMode, lines 82-134: tools, branch info, prepareMcpConfig, result
\* (commentId is undefined; claudeBranch comes from CLAUDE_BRANCH when set)
AgentPrepareMcpConfig ==
  /\ pc = "agent_mcp"
  /\ \/ \E branch \in {Undefined, "claude/auto-fix"} :
          /\ prepResult' = [commentId |-> Undefined, claudeBranch |-> branch]
          /\ pc' = "prepare_done"
          /\ UNCHANGED thrown
     \/ /\ Throw(Err("mcp config failed"), "prepare")
        /\ UNCHANGED prepResult
  /\ UNCHANGED <<inputVars, utilVars, runVars, failed, failMessage, exitCode, outputs, processEnv,
                 retryVars, effects, trackingComment, called, tagModeTools, miscVars>>

\* ------------------------------------------------------------------ run.ts, phases 2-4
\* run(), lines 204-207: take over the preparation result, set prepareCompleted
RunPrepareCompleted ==
  /\ pc = "prepare_done"
  /\ entrypoint = "run"
  /\ commentId' = prepResult.commentId
  /\ claudeBranch' = prepResult.claudeBranch
  /\ prepareCompleted' = TRUE
  /\ pc' = "install"
  /\ UNCHANGED <<inputVars, utilVars, contextParsed, githubToken, octokit, executionFile,
                 claudeSuccess, prepareSuccess, prepareError, outcomeVars, retryVars,
                 prepVars, miscVars>>

\* installClaudeCode, lines 39-94 (called at line 210): a custom executable, or
\* up to three attempts of the installer
InstallClaudeCode ==
  /\ pc = "install"
  /\ phaseLog' = IF installAttempt = 0 THEN Append(phaseLog, "install") ELSE phaseLog
  /\ \/ /\ installAttempt = 0
        /\ pc' = "settings"
        /\ UNCHANGED <<installAttempt, thrown>>
     \/ /\ installAttempt' = 0
        /\ pc' = "settings"
        /\ UNCHANGED thrown
     \/ /\ installAttempt' = installAttempt + 1
        /\ IF installAttempt + 1 = InstallAttempts
           THEN Throw(Err(InstallFailureMessage), "install")
           ELSE /\ pc' = "install"
                /\ UNCHANGED thrown
  /\ UNCHANGED <<inputVars, utilVars, runVars, failed, failMessage, exitCode, outputs, processEnv,
                 retryVars, prepVars, gateVars, containsTrigger, workloadRuns, cleanupLog,
                 atCleanup>>

\* run(), lines 214-220: validateEnvironmentVariables, setupClaudeCodeSettings
RunSetupSettings ==
  /\ pc = "settings"
  /\ \/ /\ pc' = "plugins"
        /\ UNCHANGED thrown
     \/ Throw(Err("settings failed"), "settings")
  /\ UNCHANGED <<inputVars, utilVars, runVars, failed, failMessage, exitCode, outputs, processEnv,
                 retryVars, prepVars, miscVars>>

\* run(), lines 222-226: installPlugins
RunInstallPlugins ==
  /\ pc = "plugins"
  /\ \/ /\ pc' = "prompt"
        /\ UNCHANGED thrown
     \/ Throw(Err("plugins failed"), "plugins")
  /\ UNCHANGED <<inputVars, utilVars, runVars, failed, failMessage, exitCode, outputs, processEnv,
                 retryVars, prepVars, miscVars>>

\* run(), lines 228-234: preparePrompt
RunPreparePrompt ==
  /\ pc = "prompt"
  /\ \/ /\ pc' = "workload"
        /\ UNCHANGED thrown
     \/ Throw(Err("prompt failed"), "prompt")
  /\ UNCHANGED <<inputVars, utilVars, runVars, failed, failMessage, exitCode, outputs, processEnv,
                 retryVars, prepVars, miscVars>>

\* run(), lines 236-258: the single call of runClaude and the outputs set from
\* its result
RunClaude ==
  /\ pc = "workload"
  /\ phaseLog' = Append(phaseLog, "workload")
  /\ workloadRuns' = workloadRuns + 1
  /\ \/ \E conclusion \in {"success", "failure"}, file \in {Undefined, "execution.json"} :
          /\ claudeSuccess' = (conclusion = "success")
          /\ executionFile' = file
          /\ outputs' = [outputs EXCEPT
                           !["execution_file"] = IF Truthy(file) THEN file ELSE @,
                           !["conclusion"] = conclusion]
          /\ pc' = "finally"
          /\ UNCHANGED thrown
     \/ /\ Throw(Err("workload failed"), "workload")
        /\ UNCHANGED <<claudeSuccess, executionFile, outputs>>
  /\ UNCHANGED <<inputVars, utilVars, contextParsed, githubToken, octokit, commentId, claudeBranch,
                 prepareSuccess, prepareError, prepareCompleted, failed, failMessage,
                 exitCode, processEnv, retryVars, prepVars, gateVars, containsTrigger,
                 installAttempt, cleanupLog, atCleanup>>

\* variant: the handler attributes every failure to preparation
RunCatch_IgnoresPrepareCompleted ==
  /\ pc = "catch"
  /\ entrypoint = "run"
  /\ prepareSuccess' = FALSE
  /\ prepareError' = thrown.message
  /\ failed' = TRUE
  /\ failMessage' = thrown.message
  /\ pc' = "finally"
  /\ UNCHANGED <<inputVars, utilVars, contextParsed, githubToken, octokit, commentId, claudeBranch,
                 executionFile, claudeSuccess, prepareCompleted, thrown, exitCode, outputs,
                 processEnv, retryVars, prepVars, miscVars>>

\* run(), lines 259-266: the top-level failure handler (failMessage holds the
\* error message that setFailed appends to "Action failed with error: ")
RunCatch ==
  /\ pc = "catch"
  /\ entrypoint = "run"
  /\ IF ~prepareCompleted
     THEN /\ prepareSuccess' = FALSE
          /\ prepareError' = thrown.message
     ELSE UNCHANGED <<prepareSuccess, prepareError>>
  /\ failed' = TRUE
  /\ failMessage' = thrown.message
  /\ pc' = "finally"
  /\ UNCHANGED <<inputVars, utilVars, contextParsed, githubToken, octokit, commentId, claudeBranch,
                 executionFile, claudeSuccess, prepareCompleted, thrown, exitCode, outputs,
                 processEnv, retryVars, prepVars, miscVars>>

\* variant: a failed comment update is not caught; it ends the run as its failure
RunUpdateCommentLink_Rethrows ==
  /\ pc = "finally"
  /\ phaseLog' = Append(phaseLog, "cleanup")
  /\ atCleanup' = [failed |-> failed, failMessage |-> failMessage]
  /\ IF Truthy(commentId) /\ contextParsed /\ context.isEntity /\ Truthy(githubToken)
        /\ octokit
     THEN \/ /\ cleanupLog' = Append(cleanupLog, "comment updated")
             /\ pc' = "summary"
             /\ UNCHANGED <<failed, failMessage>>
          \/ /\ cleanupLog' = Append(cleanupLog, "comment update failed")
             /\ failed' = TRUE
             /\ failMessage' = "comment update failed"
             /\ pc' = "done"
     ELSE /\ pc' = "summary"
          /\ UNCHANGED <<cleanupLog, failed, failMessage>>
  /\ UNCHANGED <<inputVars, utilVars, runVars, thrown, exitCode, outputs, processEnv, retryVars,
                 prepVars, gateVars, containsTrigger, installAttempt, workloadRuns>>

\* run(), lines 267-296: entry of the finally block and the tracking-comment
\* update, whose failure is caught and logged
RunUpdateCommentLink ==
  /\ pc = "finally"
  /\ phaseLog' = Append(phaseLog, "cleanup")
  /\ atCleanup' = [failed |-> failed, failMessage |-> failMessage]
  /\ IF Truthy(commentId) /\ contextParsed /\ context.isEntity /\ Truthy(githubToken)
        /\ octokit
     THEN \/ cleanupLog' = Append(cleanupLog, "comment updated")
          \/ cleanupLog' = Append(cleanupLog, "comment update failed")
     ELSE UNCHANGED cleanupLog
  /\ pc' = "summary"
  /\ UNCHANGED <<inputVars, utilVars, runVars, outcomeVars, retryVars, prepVars, gateVars,
                 containsTrigger, installAttempt, workloadRuns>>

\* writeStepSummary, lines 99-124: no summary file, formatted report, raw
\* fallback, or both writes failing (logged)
writeStepSummary ==
  \/ UNCHANGED cleanupLog
  \/ cleanupLog' = Append(cleanupLog, "report written")
  \/ cleanupLog' = Append(cleanupLog, "raw report written")
  \/ cleanupLog' = Append(cleanupLog, "report failed")

\* run(), lines 298-305: the step summary, when there is an execution file on
\* disk and DISPLAY_REPORT is not "false"
RunWriteStepSummary ==
  /\ pc = "summary"
  /\ \E exists \in BOOLEAN, displayReport \in {"true", "false"} :
       IF Truthy(executionFile) /\ exists /\ displayReport # "false"
       THEN writeStepSummary
       ELSE UNCHANGED cleanupLog
  /\ pc' = "final_outputs"
  /\ UNCHANGED <<inputVars, utilVars, runVars, outcomeVars, retryVars, prepVars, gateVars,
                 containsTrigger, installAttempt, workloadRuns, phaseLog, atCleanup>>

\* variant: github_token is only written when a credential was resolved
RunSetFinalOutputs_TokenOnlyWhenSet ==
  /\ pc = "final_outputs"
  /\ outputs' = [outputs EXCEPT !["branch_name"] = claudeBranch,
                                !["github_token"] =
                                  IF Truthy(githubToken) THEN githubToken ELSE @]
  /\ cleanupLog' = Append(cleanupLog, "outputs set")
  /\ pc' = "done"
  /\ UNCHANGED <<inputVars, utilVars, runVars, thrown, failed, failMessage, exitCode, processEnv,
                 retryVars, prepVars, gateVars, containsTrigger, installAttempt,
                 workloadRuns, phaseLog, atCleanup>>

\* run(), lines 307-310: the remaining outputs
RunSetFinalOutputs ==
  /\ pc = "final_outputs"
  /\ outputs' = [outputs EXCEPT !["branch_name"] = claudeBranch,
                                !["github_token"] = githubToken]
  /\ cleanupLog' = Append(cleanupLog, "outputs set")
  /\ pc' = "done"
  /\ UNCHANGED <<inputVars, utilVars, runVars, thrown, failed, failMessage, exitCode, processEnv,
                 retryVars, prepVars, gateVars, containsTrigger, installAttempt,
                 workloadRuns, phaseLog, atCleanup>>

\* ------------------------------------------------------------------ prepare.ts
\* run(), lines 21-30
PrepareParseContext ==
  /\ pc = "start"
  /\ entrypoint = "prepare"
  /\ phaseLog' = Append(phaseLog, "context")
  /\ \/ /\ contextParsed' = TRUE
        /\ pc' = "token"
        /\ UNCHANGED thrown
     \/ /\ Throw(Err("context error"), "context")
        /\ UNCHANGED contextParsed
  /\ UNCHANGED <<inputVars, utilVars, githubToken, octokit, commentId, claudeBranch, executionFile,
                 claudeSuccess, prepareSuccess, prepareError, prepareCompleted,
                 failed, failMessage, exitCode, outputs, processEnv, retryVars, prepVars,
                 gateVars, containsTrigger, installAttempt, workloadRuns, cleanupLog,
                 atCleanup>>

\* run(), lines 33-34
PrepareCreateOctokit ==
  /\ pc = "token_done"
  /\ entrypoint = "prepare"
  /\ octokit' = TRUE
  /\ pc' = "perm"
  /\ DiscardRetryState
  /\ UNCHANGED <<inputVars, utilVars, contextParsed, githubToken, commentId, claudeBranch,
                 executionFile, claudeSuccess, prepareSuccess, prepareError,
                 prepareCompleted, outcomeVars, oidcRequested, exchangeRequested,
                 prepVars, miscVars>>

\* run(), lines 36-51
PrepareCheckWritePermissions ==
  /\ pc = "perm"
  /\ entrypoint = "prepare"
  /\ WritePermissionStep
  /\ UNCHANGED <<inputVars, utilVars, runVars, failed, failMessage, exitCode, outputs, processEnv,
                 retryVars, prepVars, actorType, humanGate, containsTrigger,
                 installAttempt, workloadRuns, cleanupLog, atCleanup>>

\* run(), lines 53-72
PrepareCheckTrigger ==
  /\ pc = "trigger"
  /\ entrypoint = "prepare"
  /\ phaseLog' = Append(phaseLog, "trigger")
  /\ \E found \in TriggerAnswers :
       /\ containsTrigger' = BoolString(ContainsTrigger(found))
       /\ IF ~ContainsTrigger(found)
          THEN /\ outputs' = [outputs EXCEPT
                                !["contains_trigger"] = BoolString(ContainsTrigger(found)),
                                !["github_token"] = githubToken]
               /\ pc' = "done"
          ELSE /\ outputs' = setOutput("contains_trigger",
                                       BoolString(ContainsTrigger(found)))
               /\ pc' = "prepare"
  /\ UNCHANGED <<inputVars, utilVars, runVars, thrown, failed, failMessage, exitCode, processEnv,
                 retryVars, prepVars, gateVars, installAttempt, workloadRuns, cleanupLog,
                 atCleanup>>

\* run(), lines 84-87: preparation returned
PrepareSetTokenOutput ==
  /\ pc = "prepare_done"
  /\ entrypoint = "prepare"
  /\ outputs' = setOutput("github_token", githubToken)
  /\ pc' = "done"
  /\ UNCHANGED <<inputVars, utilVars, runVars, thrown, failed, failMessage, exitCode, processEnv,
                 retryVars, prepVars, miscVars>>

\* run(), lines 88-94: the only handler of prepare.ts
PrepareCatch ==
  /\ pc = "catch"
  /\ entrypoint = "prepare"
  /\ failed' = TRUE
  /\ failMessage' = thrown.message
  /\ outputs' = setOutput("prepare_error", thrown.message)
  /\ exitCode' = "1"
  /\ pc' = "done"
  /\ UNCHANGED <<inputVars, utilVars, runVars, thrown, processEnv, retryVars, prepVars, miscVars>>

\* ------------------------------------------------------------------ path-validation.ts
RECURSIVE Normalize(_, _)
\* path.resolve on segments: empty and "." segments are dropped, ".." drops
\* the last name (and stays at "/")
Normalize(base, segs) ==
  IF segs = <<>> THEN base
  ELSE LET h == Head(segs)
       IN Normalize(IF h = <<>> \/ h = Dot THEN base
                    ELSE IF h = DotDot
                         THEN IF base = <<>> THEN base
                              ELSE SubSeq(base, 1, Len(base) - 1)
                         ELSE Append(base, h),
                    Tail(segs))

\* resolve(from, to): an absolute `to` replaces `from`
resolve(from, to) ==
  IF to.absolute THEN Normalize(<<>>, to.segs) ELSE Normalize(from, to.segs)

\* the argument ".." of resolve(initialPath, "..")
ParentSegment == [absolute |-> FALSE, segs |-> <<DotDot>>]

RECURSIVE Walk(_, _, _, _)
\* the lookup of the operating system: `cur` is the directory reached, `rest`
\* the names still to be looked up, `links` the symbolic links that may still
\* be followed; with `create` a missing last name is where a new file goes
Walk(cur, rest, links, create) ==
  IF rest = <<>> THEN [ok |-> TRUE, path |-> cur]
  ELSE LET next == Append(cur, Head(rest))
       IN IF next \notin DOMAIN fs
          THEN IF create /\ Len(rest) = 1
               THEN [ok |-> TRUE, path |-> next]
               ELSE [ok |-> FALSE, path |-> <<>>]
          ELSE IF fs[next].kind = "link"
          THEN IF links = 0
               THEN [ok |-> FALSE, path |-> <<>>]
               ELSE Walk(<<>>, fs[next].target \o Tail(rest), links - 1, create)
          ELSE IF fs[next].kind = "file" /\ Tail(rest) # <<>>
          THEN [ok |-> FALSE, path |-> <<>>]
          ELSE Walk(next, Tail(rest), links, create)

\* fs.realpath: every name must exist
realpath(p) == Walk(<<>>, p, MaxLinks, FALSE)

RECURSIVE Join(_)
Join(p) == IF p = <<>> THEN <<>> ELSE <<Sep>> \o Head(p) \o Join(Tail(p))
\* the string of an absolute path
PathString(p) == IF p = <<>> THEN <<Sep>> ELSE Join(p)

\* String.prototype.startsWith
startsWith(str, prefix) ==
  Len(str) >= Len(prefix) /\ SubSeq(str, 1, Len(prefix)) = prefix

\* variant: the prefix test without the separator after the root
WithinRoot_NoSeparator(resolved, resolvedRoot) ==
  \/ PathString(resolved) = PathString(resolvedRoot)
  \/ startsWith(PathString(resolved), PathString(resolvedRoot))

\* the containment test of lines 38-40 and 56-58, not negated
WithinRoot(resolved, resolvedRoot) ==
  \/ PathString(resolved) = PathString(resolvedRoot)
  \/ startsWith(PathString(resolved), PathString(resolvedRoot) \o <<Sep>>)

\* variant: a target that exists is returned without the containment test
validatePathWithinRepo_ExistingUnchecked(path, root) ==
  LET initialPath == resolve(root, path)
      resolvedRoot == realpath(root)
      resolvedPath == realpath(initialPath)
      parentDir == resolve(initialPath, ParentSegment)
      resolvedParent == realpath(parentDir)
  IN IF ~resolvedRoot.ok THEN PathError(RootNotFoundMessage)
     ELSE IF ~resolvedPath.ok
     THEN IF ~resolvedParent.ok THEN PathError(OutsideRootMessage)
          ELSE IF ~WithinRoot(resolvedParent.path, resolvedRoot.path)
          THEN PathError(OutsideRootMessage)
          ELSE PathOk(initialPath)
     ELSE PathOk(resolvedPath.path)

\* variant: the candidate is resolved and tested before the root
validatePathWithinRepo_CandidateFirst(path, root) ==
  LET initialPath == resolve(root, path)
      resolvedRoot == realpath(root)
      resolvedPath == realpath(initialPath)
      parentDir == resolve(initialPath, ParentSegment)
      resolvedParent == realpath(parentDir)
  IN IF ~resolvedPath.ok /\ ~resolvedParent.ok THEN PathError(OutsideRootMessage)
     ELSE IF ~resolvedRoot.ok THEN PathError(RootNotFoundMessage)
     ELSE IF ~resolvedPath.ok
     THEN IF ~WithinRoot(resolvedParent.path, resolvedRoot.path)
          THEN PathError(OutsideRootMessage)
          ELSE PathOk(initialPath)
     ELSE IF ~WithinRoot(resolvedPath.path, resolvedRoot.path)
     THEN PathError(OutsideRootMessage)
     ELSE PathOk(resolvedPath.path)

\* variant: a new file is returned below its resolved parent
validatePathWithinRepo_NewFileResolved(path, root) ==
  LET initialPath == resolve(root, path)
      resolvedRoot == realpath(root)
      resolvedPath == realpath(initialPath)
      parentDir == resolve(initialPath, ParentSegment)
      resolvedParent == realpath(parentDir)
  IN IF ~resolvedRoot.ok THEN PathError(RootNotFoundMessage)
     ELSE IF ~resolvedPath.ok
     THEN IF ~resolvedParent.ok THEN PathError(OutsideRootMessage)
          ELSE IF ~WithinRoot(resolvedParent.path, resolvedRoot.path)
          THEN PathError(OutsideRootMessage)
          ELSE PathOk(Append(resolvedParent.path, initialPath[Len(initialPath)]))
     ELSE IF ~WithinRoot(resolvedPath.path, resolvedRoot.path)
     THEN PathError(OutsideRootMessage)
     ELSE PathOk(resolvedPath.path)

\* variant: a missing parent is judged by the lexical path
validatePathWithinRepo_MissingParentLexical(path, root) ==
  LET initialPath == resolve(root, path)
      resolvedRoot == realpath(root)
      resolvedPath == realpath(initialPath)
      parentDir == resolve(initialPath, ParentSegment)
      resolvedParent == realpath(parentDir)
  IN IF ~resolvedRoot.ok THEN PathError(RootNotFoundMessage)
     ELSE IF ~resolvedPath.ok
     THEN IF ~resolvedParent.ok
          THEN IF WithinRoot(initialPath, root) THEN PathOk(initialPath)
               ELSE PathError(OutsideRootMessage)
          ELSE IF ~WithinRoot(resolvedParent.path, resolvedRoot.path)
          THEN PathError(OutsideRootMessage)
          ELSE PathOk(initialPath)
     ELSE IF ~WithinRoot(resolvedPath.path, resolvedRoot.path)
     THEN PathError(OutsideRootMessage)
     ELSE PathOk(resolvedPath.path)

\* validatePathWithinRepo, lines 12-64
validatePathWithinRepo(path, root) ==
  LET initialPath == resolve(root, path)
      resolvedRoot == realpath(root)
      resolvedPath == realpath(initialPath)
      parentDir == resolve(initialPath, ParentSegment)
      resolvedParent == realpath(parentDir)
  IN IF ~resolvedRoot.ok THEN PathError(RootNotFoundMessage)
     ELSE IF ~resolvedPath.ok
     THEN IF ~resolvedParent.ok THEN PathError(OutsideRootMessage)
          ELSE IF ~WithinRoot(resolvedParent.path, resolvedRoot.path)
          THEN PathError(OutsideRootMessage)
          ELSE PathOk(initialPath)
     ELSE IF ~WithinRoot(resolvedPath.path, resolvedRoot.path)
     THEN PathError(OutsideRootMessage)
     ELSE PathOk(resolvedPath.path)

\* one call of validatePathWithinRepo
ValidatePath ==
  /\ pc = "validate"
  /\ pathResult' = validatePathWithinRepo(filePath, repoRoot)
  /\ pc' = "validated"
  /\ UNCHANGED <<stepVars, inputVars, runVars, outcomeVars, retryVars, prepVars, miscVars,
                 fs, repoRoot, filePath, reached, branchVars, permVars, actorVars>>

\* the caller uses the returned path: it reads the file there, or writes it
\* ("the case where we're creating a new file"); the operating system follows
\* every symbolic link on the way, the last name included
AccessPath ==
  /\ pc = "validated"
  /\ pathResult.kind = "return"
  /\ \E mode \in {"read", "write"} :
       LET end == Walk(<<>>, pathResult.path, MaxLinks, mode = "write")
       IN reached' = [mode |-> mode, ok |-> end.ok, path |-> end.path]
  /\ pc' = "accessed"
  /\ UNCHANGED <<stepVars, inputVars, runVars, outcomeVars, retryVars, prepVars, miscVars,
                 fs, repoRoot, filePath, pathResult, branchVars, permVars, actorVars>>

\* no entrypoint is running
RunIdle ==
  /\ entrypoint = "none"
  /\ modeName = "none"
  /\ context = [isEntity |-> FALSE, allowedBotsMatch |-> FALSE,
                allowedNonWriteUser |-> FALSE, prompt |-> "", sshSigningKey |-> "",
                useCommitSigning |-> FALSE]
  /\ env = [OVERRIDE_GITHUB_TOKEN |-> ""]
  /\ Fresh

\* a call of the validator: any of the filesystems, roots and candidates
PathInit ==
  /\ pc = "validate"
  /\ RunIdle
  /\ StepIdle
  /\ fs \in FileSystems
  /\ repoRoot \in Roots
  /\ filePath \in Candidates
  /\ pathResult = NoPathResult
  /\ reached = NotReached
  /\ BranchIdle
  /\ PermIdle
  /\ ActorIdle

PathNext ==
  \/ ValidatePath
  \/ AccessPath

PathSpec == PathInit /\ [][PathNext]_vars

\* ------------------------------------------------------------------ branch.ts
\* String.prototype.includes
includes(str, sub) ==
  \E i \in 1..(Len(str) + 1 - Len(sub)) : SubSeq(str, i, i + Len(sub) - 1) = sub

\* String.prototype.endsWith
endsWith(str, suffix) ==
  /\ Len(str) >= Len(suffix)
  /\ SubSeq(str, Len(str) + 1 - Len(suffix), Len(str)) = suffix

\* variant: a name may end with a slash
validateBranchName_TrailingSlashAllowed(name) ==
  IF \A i \in 1..Len(name) : name[i] = " "
  THEN BranchError("cannot be empty")
  ELSE IF name[1] = "-"
  THEN BranchError("cannot start with a dash")
  ELSE IF \E i \in 1..Len(name) : name[i] \in ShellChars
  THEN BranchError("cannot contain shell metacharacters, white space or control characters")
  ELSE IF includes(name, <<".", ".">>)
  THEN BranchError("cannot contain '..'")
  ELSE IF includes(name, <<"@", "{">>)
  THEN BranchError("cannot contain '@{'")
  ELSE IF endsWith(name, <<".", "l", "o", "c", "k">>)
  THEN BranchError("cannot end with '.lock'")
  ELSE IF includes(name, <<"/", "/">>)
  THEN BranchError("cannot contain consecutive slashes")
  ELSE IF name[1] = "." \/ name[Len(name)] = "."
  THEN BranchError("cannot start or end with a period")
  ELSE IF \E i \in 1..Len(name) : name[i] = "~"
  THEN BranchError("cannot contain characters that git reserves")
  ELSE IF \E i \in 1..Len(name) : name[i] \notin AllowedChars
  THEN BranchError("can only contain alphanumerics, '-', '_', '/' and '.'")
  ELSE BranchOk

\* validateBranchName: the rules in the order the specification lists them,
\* the first rule that is violated gives the reason
validateBranchName(name) ==
  IF \A i \in 1..Len(name) : name[i] = " "
  THEN BranchError("cannot be empty")
  ELSE IF name[1] = "-"
  THEN BranchError("cannot start with a dash")
  ELSE IF \E i \in 1..Len(name) : name[i] \in ShellChars
  THEN BranchError("cannot contain shell metacharacters, white space or control characters")
  ELSE IF includes(name, <<".", ".">>)
  THEN BranchError("cannot contain '..'")
  ELSE IF includes(name, <<"@", "{">>)
  THEN BranchError("cannot contain '@{'")
  ELSE IF endsWith(name, <<".", "l", "o", "c", "k">>)
  THEN BranchError("cannot end with '.lock'")
  ELSE IF includes(name, <<"/", "/">>)
  THEN BranchError("cannot contain consecutive slashes")
  ELSE IF name[Len(name)] = "/"
  THEN BranchError("cannot end with a slash")
  ELSE IF name[1] = "." \/ name[Len(name)] = "."
  THEN BranchError("cannot start or end with a period")
  ELSE IF \E i \in 1..Len(name) : name[i] = "~"
  THEN BranchError("cannot contain characters that git reserves")
  ELSE IF \E i \in 1..Len(name) : name[i] \notin AllowedChars
  THEN BranchError("can only contain alphanumerics, '-', '_', '/' and '.'")
  ELSE BranchOk

\* one call of validateBranchName
ValidateBranchName ==
  /\ pc = "branch"
  /\ branchResult' = validateBranchName(branchName)
  /\ pc' = "branch_validated"
  /\ UNCHANGED <<stepVars, inputVars, runVars, outcomeVars, retryVars, prepVars, miscVars,
                 pathVars, branchName, permVars, actorVars>>

\* a call of the validator with any of the names
BranchInit ==
  /\ pc = "branch"
  /\ RunIdle
  /\ StepIdle
  /\ PathIdle
  /\ PermIdle
  /\ ActorIdle
  /\ branchName \in BranchNames
  /\ branchResult = NoBranchResult

BranchSpec == BranchInit /\ [][ValidateBranchName]_vars

\* ------------------------------------------------------------------ token.ts, permissions
\* String.prototype.trim: blanks and line feeds are white space
trim(str) ==
  LET solid == {i \in 1..Len(str) : str[i] \notin {" ", "NL"}}
  IN IF solid = {} THEN <<>>
     ELSE SubSeq(str, CHOOSE i \in solid : \A j \in solid : i <= j,
                      CHOOSE i \in solid : \A j \in solid : i >= j)

\* String.prototype.indexOf, counted from 1; 0 when `char` does not occur
indexOf(str, char) ==
  IF \A i \in 1..Len(str) : str[i] # char THEN 0
  ELSE CHOOSE i \in 1..Len(str) :
         str[i] = char /\ \A j \in 1..(i - 1) : str[j] # char

RECURSIVE split(_, _)
\* String.prototype.split
split(str, char) ==
  IF indexOf(str, char) = 0 THEN <<str>>
  ELSE <<SubSeq(str, 1, indexOf(str, char) - 1)>>
         \o split(SubSeq(str, indexOf(str, char) + 1, Len(str)), char)

\* additional[key] = value on an object literal: the inherited setter of
\* __proto__ ignores a string, every other key becomes an own property
SetProperty(object, key, value) ==
  IF key = <<"__proto__">> THEN object
  ELSE [k \in DOMAIN object \cup {key} |-> IF k = key THEN value ELSE object[k]]

RECURSIVE ParseLines_StopsAtMalformed(_, _)
\* variant: a malformed line ends the loop
ParseLines_StopsAtMalformed(lines, additional) ==
  IF lines = <<>> THEN additional
  ELSE LET trimmed == trim(Head(lines))
           colonIndex == indexOf(trimmed, ":")
           key == trim(SubSeq(trimmed, 1, colonIndex - 1))
           value == trim(SubSeq(trimmed, colonIndex + 1, Len(trimmed)))
       IN IF trimmed = <<>> \/ colonIndex = 0 \/ key = <<>> \/ value = <<>>
          THEN additional
          ELSE ParseLines_StopsAtMalformed(Tail(lines),
                                           SetProperty(additional, key, value))

RECURSIVE ParseLines(_, _)
\* the loop of lines 41-51
ParseLines(lines, additional) ==
  IF lines = <<>> THEN additional
  ELSE LET trimmed == trim(Head(lines))
           colonIndex == indexOf(trimmed, ":")
           key == trim(SubSeq(trimmed, 1, colonIndex - 1))
           value == trim(SubSeq(trimmed, colonIndex + 1, Len(trimmed)))
       IN IF trimmed = <<>> \/ colonIndex = 0 \/ key = <<>> \/ value = <<>>
          THEN ParseLines(Tail(lines), additional)
          ELSE ParseLines(Tail(lines), SetProperty(additional, key, value))

DEFAULT_PERMISSIONS ==
  [key \in {<<"contents">>, <<"pull_requests">>, <<"issues">>} |-> <<"write">>]

\* parseAdditionalPermissions, lines 32-58
parseAdditionalPermissions(raw) ==
  IF ~raw.set \/ raw.value = <<>> \/ trim(raw.value) = <<>> THEN NoOverlay
  ELSE LET additional == ParseLines(split(raw.value, "NL"), EmptyObject)
       IN IF DOMAIN additional = {} THEN NoOverlay
          ELSE [defined |-> TRUE,
                overlay |-> [k \in DOMAIN DEFAULT_PERMISSIONS \cup DOMAIN additional |->
                               IF k \in DOMAIN additional THEN additional[k]
                               ELSE DEFAULT_PERMISSIONS[k]]]

\* setupGitHubToken, line 141
ParseAdditionalPermissions ==
  /\ pc = "permissions"
  /\ permissions' = parseAdditionalPermissions(additionalPermissions)
  /\ pc' = "permissions_parsed"
  /\ UNCHANGED <<stepVars, inputVars, runVars, outcomeVars, retryVars, prepVars, miscVars,
                 pathVars, branchVars, actorVars, additionalPermissions, requestBody>>

\* exchangeForAppToken, lines 67-75: the body of the request
SendPermissions ==
  /\ pc = "permissions_parsed"
  /\ requestBody' = IF permissions.defined
                    THEN [present |-> TRUE, permissions |-> permissions.overlay]
                    ELSE NoBody
  /\ pc' = "permissions_sent"
  /\ UNCHANGED <<stepVars, inputVars, runVars, outcomeVars, retryVars, prepVars, miscVars,
                 pathVars, branchVars, actorVars, additionalPermissions, permissions>>

PermInit ==
  /\ pc = "permissions"
  /\ RunIdle
  /\ StepIdle
  /\ PathIdle
  /\ BranchIdle
  /\ ActorIdle
  /\ additionalPermissions \in
       {Unset} \cup {[set |-> TRUE, value |-> raw] : raw \in RawStrings}
  /\ permissions = NoOverlay
  /\ requestBody = NoBody

PermSpec == PermInit /\ [][ParseAdditionalPermissions \/ SendPermissions]_vars

\* ------------------------------------------------------------------ actor-filter.ts
\* parseActorFilter, lines 6-12
parseActorFilter(str) ==
  IF trim(str) = <<>> THEN <<>>
  ELSE LET parts == split(str, ",")
           NonEmpty(entry) == Len(entry) > 0
       IN SelectSeq([i \in 1..Len(parts) |-> trim(parts[i])], NonEmpty)

\* variant: every pattern that begins with an asterisk is a wildcard
actorMatchesPattern_AnyAsterisk(name, pat) ==
  IF name = pat THEN TRUE
  ELSE IF pat # <<>> /\ Head(pat) = "*" /\ endsWith(name, Tail(pat)) THEN TRUE
  ELSE FALSE

\* actorMatchesPattern, lines 21-30
actorMatchesPattern(name, pat) ==
  IF name = pat THEN TRUE
  ELSE IF pat = <<"*", "[bot]">> /\ endsWith(name, <<"[bot]">>) THEN TRUE
  ELSE FALSE

\* variant: the include list is looked at before the exclude list
shouldIncludeCommentByActor_IncludeFirst(name, includeList, excludeList) ==
  IF Len(includeList) > 0
     /\ \E i \in 1..Len(includeList) : actorMatchesPattern(name, includeList[i])
  THEN TRUE
  ELSE IF Len(excludeList) > 0
          /\ \E i \in 1..Len(excludeList) : actorMatchesPattern(name, excludeList[i])
  THEN FALSE
  ELSE Len(includeList) = 0

\* shouldIncludeCommentByActor, lines 39-65
shouldIncludeCommentByActor(name, includeList, excludeList) ==
  IF Len(excludeList) > 0
     /\ \E i \in 1..Len(excludeList) : actorMatchesPattern(name, excludeList[i])
  THEN FALSE
  ELSE IF Len(includeList) > 0
  THEN \E i \in 1..Len(includeList) : actorMatchesPattern(name, includeList[i])
  ELSE TRUE

\* one call of parseActorFilter
ParseActorFilter ==
  /\ pc = "filter"
  /\ filterList' = parseActorFilter(filterString)
  /\ pc' = "filter_parsed"
  /\ UNCHANGED <<stepVars, inputVars, runVars, outcomeVars, retryVars, prepVars, miscVars,
                 pathVars, branchVars, permVars, filterString, actor, pattern,
                 matches, includeActors, excludeActors, included>>

\* one call of actorMatchesPattern
ActorMatchesPattern ==
  /\ pc = "match"
  /\ matches' = actorMatchesPattern(actor, pattern)
  /\ pc' = "matched"
  /\ UNCHANGED <<stepVars, inputVars, runVars, outcomeVars, retryVars, prepVars, miscVars,
                 pathVars, branchVars, permVars, filterString, filterList, actor,
                 pattern, includeActors, excludeActors, included>>

\* one call of shouldIncludeCommentByActor
ShouldIncludeCommentByActor ==
  /\ pc = "include"
  /\ included' = shouldIncludeCommentByActor(actor, includeActors, excludeActors)
  /\ pc' = "include_decided"
  /\ UNCHANGED <<stepVars, inputVars, runVars, outcomeVars, retryVars, prepVars, miscVars,
                 pathVars, branchVars, permVars, filterString, filterList, actor,
                 pattern, matches, includeActors, excludeActors>>

\* a call of one of the three functions, with any of the arguments
ActorInit ==
  /\ RunIdle
  /\ StepIdle
  /\ PathIdle
  /\ BranchIdle
  /\ PermIdle
  /\ filterList = <<>>
  /\ matches = FALSE
  /\ included = FALSE
  /\ \/ /\ pc = "filter"
        /\ filterString \in FilterStrings
        /\ actor = <<>> /\ pattern = <<>>
        /\ includeActors = <<>> /\ excludeActors = <<>>
     \/ /\ pc = "match"
        /\ actor \in ActorNames
        /\ pattern \in ActorNames
        /\ filterString = <<>>
        /\ includeActors = <<>> /\ excludeActors = <<>>
     \/ /\ pc = "include"
        /\ actor \in ActorNames
        /\ includeActors \in ActorLists
        /\ excludeActors \in ActorLists
        /\ filterString = <<>> /\ pattern = <<>>

ActorSpec ==
  ActorInit
    /\ [][ParseActorFilter \/ ActorMatchesPattern \/ ShouldIncludeCommentByActor]_vars

\* ------------------------------------------------------------------ update-comment-link.ts
\* updateCommentLink, lines 164-205: actionFailed, errorDetails and
\* executionDetails. `file` is what readFile and JSON.parse find at
\* params.outputFile: "missing" (readFile throws), "unparseable" (JSON.parse
\* throws), "no result" (no array ending with a result element that has
\* total_cost_usd and duration_ms) or "result"
updateCommentLink(params, file) ==
  IF ~params.prepareSuccess /\ Truthy(params.prepareError)
  THEN [called |-> TRUE, actionFailed |-> TRUE,
        errorDetails |-> params.prepareError, executionDetails |-> "null"]
  ELSE [called |-> TRUE, actionFailed |-> ~params.claudeSuccess,
        errorDetails |-> Undefined,
        executionDetails |-> IF Truthy(params.outputFile) /\ file = "result"
                             THEN "details" ELSE "null"]

\* run(), lines 242-265: the parameters the entrypoint takes from process.env
\* (an unset variable reads as undefined)
UpdateCommentLinkRun ==
  /\ pc = "link_env"
  /\ linkParams' =
       [prepareSuccess |-> linkEnv.PREPARE_SUCCESS # "false",
        prepareError |-> IF linkEnv.PREPARE_ERROR = Absent THEN Undefined
                         ELSE linkEnv.PREPARE_ERROR,
        claudeSuccess |-> linkEnv.CLAUDE_SUCCESS # "false",
        outputFile |-> IF linkEnv.OUTPUT_FILE = Absent THEN Undefined
                       ELSE linkEnv.OUTPUT_FILE]
  /\ pc' = "link"
  /\ UNCHANGED <<inputVars, runVars, outcomeVars, retryVars, prepVars, miscVars,
                 pathVars, branchVars, permVars, actorVars, linkEnv, linkFile, linkResult,
                 signingKey, sshDir, keyFile, gitSigning, sshResult>>

\* one call of updateCommentLink
UpdateCommentLink ==
  /\ pc = "link"
  /\ linkResult' = updateCommentLink(linkParams, linkFile)
  /\ pc' = "link_done"
  /\ UNCHANGED <<inputVars, runVars, outcomeVars, retryVars, prepVars, miscVars,
                 pathVars, branchVars, permVars, actorVars, linkEnv, linkParams, linkFile,
                 signingKey, sshDir, keyFile, gitSigning, sshResult>>

\* a call of updateCommentLink with any parameters (as run.ts makes it), or a
\* start of the entrypoint in any environment; the output file in any state
LinkInit ==
  /\ RunIdle
  /\ PathIdle
  /\ BranchIdle
  /\ PermIdle
  /\ ActorIdle
  /\ signingKey = <<>>
  /\ sshDir = FALSE
  /\ keyFile = [exists |-> FALSE, content |-> <<>>]
  /\ gitSigning = {}
  /\ sshResult = [op |-> "none", kind |-> "none", message |-> ""]
  /\ linkFile \in {"missing", "unparseable", "no result", "result"}
  /\ linkResult = [called |-> FALSE, actionFailed |-> FALSE,
                   errorDetails |-> Undefined, executionDetails |-> "null"]
  /\ \/ /\ pc = "link"
        /\ linkEnv = [PREPARE_SUCCESS |-> Absent, PREPARE_ERROR |-> Absent,
                      CLAUDE_SUCCESS |-> Absent, OUTPUT_FILE |-> Absent]
        /\ linkParams \in [prepareSuccess : BOOLEAN,
                            prepareError : {Undefined, "", NoWritePermissionMessage},
                            claudeSuccess : BOOLEAN,
                            outputFile : {Undefined, "execution.json"}]
     \/ /\ pc = "link_env"
        /\ linkEnv \in [PREPARE_SUCCESS : {Absent, "true", "false"},
                         PREPARE_ERROR : {Absent, "", NoWritePermissionMessage},
                         CLAUDE_SUCCESS : {Absent, "true", "false"},
                         OUTPUT_FILE : {Absent, "execution.json"}]
        /\ linkParams = [prepareSuccess |-> TRUE, prepareError |-> Undefined,
                         claudeSuccess |-> TRUE, outputFile |-> Undefined]

LinkSpec == LinkInit /\ [][UpdateCommentLinkRun \/ UpdateCommentLink]_vars

\* ------------------------------------------------------------------ git-config.ts, SSH signing
\* a key is a tuple of tokens: blanks and line feeds, the words "BEGIN" and
\* "PRIVATE KEY", and other text; every key of up to MaxKey tokens
MaxKey == 3

\* variant: a line feed is appended to every key
normalizedKey_AlwaysAppends(sshSigningKey) == sshSigningKey \o <<"NL">>

\* setupSshSigning, lines 86-88: const normalizedKey
normalizedKey(sshSigningKey) ==
  IF endsWith(sshSigningKey, <<"NL">>) THEN sshSigningKey
  ELSE sshSigningKey \o <<"NL">>

\* setupSshSigning, lines 67-100: the two validations, then mkdir, writeFile
\* and the three git config commands, each of which may fail
SetupSshSigning ==
  /\ pc = "ssh"
  /\ pc' = "ssh_set"
  /\ IF trim(signingKey) = <<>>
     THEN /\ sshResult' = [op |-> "setupSshSigning", kind |-> "throw",
                           message |-> "SSH signing key cannot be empty"]
          /\ UNCHANGED <<sshDir, keyFile, gitSigning>>
     ELSE IF ~includes(signingKey, <<"BEGIN">>) \/ ~includes(signingKey, <<"PRIVATE KEY">>)
     THEN /\ sshResult' = [op |-> "setupSshSigning", kind |-> "throw",
                           message |-> "Invalid SSH private key format"]
          /\ UNCHANGED <<sshDir, keyFile, gitSigning>>
     ELSE \/ /\ sshResult' = [op |-> "setupSshSigning", kind |-> "throw",
                               message |-> "mkdir failed"]
             /\ UNCHANGED <<sshDir, keyFile, gitSigning>>
          \/ /\ sshDir' = TRUE
             /\ sshResult' = [op |-> "setupSshSigning", kind |-> "throw",
                               message |-> "writeFile failed"]
             /\ UNCHANGED <<keyFile, gitSigning>>
          \/ /\ sshDir' = TRUE
             /\ keyFile' = [exists |-> TRUE, content |-> normalizedKey(signingKey)]
             /\ \/ \E done \in {{}, {"gpg.format"}, {"gpg.format", "user.signingkey"}} :
                     /\ gitSigning' = gitSigning \cup done
                     /\ sshResult' = [op |-> "setupSshSigning", kind |-> "throw",
                                       message |-> "git config failed"]
                \/ /\ gitSigning' = {"gpg.format", "user.signingkey", "commit.gpgsign"}
                   /\ sshResult' = [op |-> "setupSshSigning", kind |-> "return",
                                     message |-> ""]
  /\ UNCHANGED <<inputVars, runVars, outcomeVars, retryVars, prepVars, miscVars,
                 pathVars, branchVars, permVars, actorVars, linkEnv, linkParams,
                 linkFile, linkResult, signingKey>>

\* variant: a failed removal is raised to the caller
cleanupSshSigning_RaisesOnFailure(op) ==
  /\ pc \in {"ssh", "ssh_set", "ssh_clean"}
  /\ pc' = "ssh_clean"
  /\ \/ /\ keyFile' = [exists |-> FALSE, content |-> <<>>]
        /\ sshResult' = [op |-> op, kind |-> "return",
                          message |-> "SSH signing key cleaned up"]
     \/ /\ keyFile' = keyFile
        /\ sshResult' = [op |-> op, kind |-> "throw", message |-> "rm failed"]
  /\ UNCHANGED <<inputVars, runVars, outcomeVars, retryVars, prepVars, miscVars,
                 pathVars, branchVars, permVars, actorVars, linkEnv, linkParams,
                 linkFile, linkResult, signingKey, sshDir, gitSigning>>

\* cleanupSshSigning, lines 106-113, called by `op`: rm with force removes the
\* key file or finds none; a failing rm leaves the file as it is, and the
\* catch logs
cleanupSshSigning(op) ==
  /\ pc \in {"ssh", "ssh_set", "ssh_clean"}
  /\ pc' = "ssh_clean"
  /\ \/ /\ keyFile' = [exists |-> FALSE, content |-> <<>>]
        /\ sshResult' = [op |-> op, kind |-> "return",
                          message |-> "SSH signing key cleaned up"]
     \/ /\ keyFile' = keyFile
        /\ sshResult' = [op |-> op, kind |-> "return",
                          message |-> "No SSH signing key to clean up"]
  /\ UNCHANGED <<inputVars, runVars, outcomeVars, retryVars, prepVars, miscVars,
                 pathVars, branchVars, permVars, actorVars, linkEnv, linkParams,
                 linkFile, linkResult, signingKey, sshDir, gitSigning>>

\* one call of cleanupSshSigning
CleanupSshSigning == cleanupSshSigning("cleanupSshSigning")

\* cleanup-ssh-signing.ts run(), lines 10-17: the call in a try block whose
\* catch only logs
CleanupSshSigningRun == cleanupSshSigning("run")

\* a call of setupSshSigning with any key, or of the cleanup, in a home
\* directory without ~/.ssh, with it, or with a key file left there
SshInit ==
  /\ pc = "ssh"
  /\ RunIdle
  /\ PathIdle
  /\ BranchIdle
  /\ PermIdle
  /\ ActorIdle
  /\ linkEnv = [PREPARE_SUCCESS |-> Absent, PREPARE_ERROR |-> Absent,
                CLAUDE_SUCCESS |-> Absent, OUTPUT_FILE |-> Absent]
  /\ linkParams = [prepareSuccess |-> TRUE, prepareError |-> Undefined,
                   claudeSuccess |-> TRUE, outputFile |-> Undefined]
  /\ linkFile = "missing"
  /\ linkResult = [called |-> FALSE, actionFailed |-> FALSE,
                   errorDetails |-> Undefined, executionDetails |-> "null"]
  /\ signingKey \in SeqsUpTo({" ", "NL", "BEGIN", "PRIVATE KEY", "k"}, MaxKey)
  /\ \E home \in {<<FALSE, [exists |-> FALSE, content |-> <<>>]>>,
                   <<TRUE, [exists |-> FALSE, content |-> <<>>]>>,
                   <<TRUE, [exists |-> TRUE, content |-> <<"k", "NL">>]>>} :
       /\ sshDir = home[1]
       /\ keyFile = home[2]
  /\ gitSigning = {}
  /\ sshResult = [op |-> "none", kind |-> "none", message |-> ""]

SshSpec ==
  SshInit /\ [][SetupSshSigning \/ CleanupSshSigning \/ CleanupSshSigningRun]_vars

\* ------------------------------------------------------------------ specification
Next ==
  \/ RunParseContext
  \/ SetupGitHubToken
  \/ RequestOidcToken
  \/ ExchangeForAppToken
  \/ RunTokenCatch
  \/ RunCreateOctokit
  \/ RunCheckWritePermissions
  \/ RunCheckTrigger
  \/ TagCheckHumanActor
  \/ TagCreateInitialComment
  \/ TagFetchGitHubData
  \/ TagSetupBranch
  \/ TagSetupSshSigning
  \/ TagConfigureGitAuth
  \/ TagCreatePrompt
  \/ TagPrepareMcpConfig
  \/ AgentCheckHumanActor
  \/ AgentSetupSshSigning
  \/ AgentConfigureGitAuth
  \/ AgentWritePrompt
  \/ AgentPrepareMcpConfig
  \/ RunPrepareCompleted
  \/ InstallClaudeCode
  \/ RunSetupSettings
  \/ RunInstallPlugins
  \/ RunPreparePrompt
  \/ RunClaude
  \/ RunCatch
  \/ RunUpdateCommentLink
  \/ RunWriteStepSummary
  \/ RunSetFinalOutputs
  \/ PrepareParseContext
  \/ PrepareCreateOctokit
  \/ PrepareCheckWritePermissions
  \/ PrepareCheckTrigger
  \/ PrepareSetTokenOutput
  \/ PrepareCatch

Spec == Init /\ [][Next]_vars

\* ------------------------------------------------------------------ properties
Count(seq, x) == Cardinality({i \in DOMAIN seq : seq[i] = x})
Started(phase) == \E i \in DOMAIN phaseLog : phaseLog[i] = phase
InCleanup == pc \in {"summary", "final_outputs", "done"}

\* C1: in every execution of run.ts run(), however the earlier phases end, the
\* cleanup block is entered exactly once and nothing else starts after it: the
\* run cannot stop anywhere but at its end, the block is never entered twice,
\* once entered it is the last phase started, and a finished run has entered it.
C1_CleanupExactlyOnce ==
  entrypoint = "run" =>
    /\ pc # "done" => ENABLED Next
    /\ Count(phaseLog, "cleanup") <= 1
    /\ Started("cleanup") => phaseLog[Len(phaseLog)] = "cleanup"
    /\ pc = "done" => Count(phaseLog, "cleanup") = 1
    /\ Started("cleanup") <=> InCleanup

\* a run whose workload threw has finished, cleaned up once
C1_Witness ==
  /\ entrypoint = "run"
  /\ pc = "done"
  /\ thrown.message = "workload failed"
  /\ Count(phaseLog, "cleanup") = 1

\* C2: in run.ts run(), an error that reaches the top-level handler before
\* prepareCompleted is set (any point up to the end of preparation) records
\* prepareSuccess = false and prepareError = its message; one that reaches it
\* after (install, settings, plugins, prompt, workload) leaves prepareSuccess
\* true and prepareError unset; both mark the run failed with the message.
C2_FailureAttribution ==
  (entrypoint = "run" /\ (InCleanup \/ pc = "finally")) =>
    /\ failed <=> (thrown.kind = "Error")
    /\ failed => failMessage = thrown.message
    /\ prepareCompleted <=> Started("install")
    /\ (failed /\ ~Started("install")) =>
         (~prepareSuccess /\ prepareError = thrown.message)
    /\ (failed /\ Started("install")) =>
         (prepareSuccess /\ prepareError = Undefined)
    /\ ~failed => (prepareSuccess /\ prepareError = Undefined)

\* an error thrown by the plugin installation, attributed to execution
C2_Witness ==
  /\ entrypoint = "run"
  /\ pc = "done"
  /\ failed
  /\ failMessage = "plugins failed"
  /\ prepareCompleted
  /\ prepareSuccess
  /\ prepareError = Undefined

\* C3: a failure inside the cleanup block of run.ts run() is logged only: the
\* failed flag and its message stay what they were when the block was entered,
\* and the block always runs on to its last step, which sets branch_name and
\* github_token.
C3_CleanupNeverMasks ==
  (entrypoint = "run" /\ InCleanup) =>
    /\ pc # "done" => ENABLED Next
    /\ failed = atCleanup.failed
    /\ failMessage = atCleanup.failMessage
    /\ pc = "done" =>
         /\ cleanupLog[Len(cleanupLog)] = "outputs set"
         /\ outputs["branch_name"] = claudeBranch
         /\ outputs["github_token"] = githubToken

\* the comment update and the report both failed after a failed workload
C3_Witness ==
  /\ entrypoint = "run"
  /\ pc = "done"
  /\ Count(cleanupLog, "comment update failed") = 1
  /\ Count(cleanupLog, "report failed") = 1
  /\ outputs["conclusion"] = "failure"
  /\ outputs["github_token"] = githubToken

ResponseSaysWorkflowNotFound ==
  /\ exchangeRequested
  /\ ~lastResponse.ok
  /\ lastResponse.errorCode = WorkflowNotFound

\* C4: when the exchange answers with workflow_not_found_on_default_branch,
\* run.ts run() takes the skip path: the skip output is set to "true", the run
\* is never marked failed, prepareError stays unset, and no permission check,
\* trigger check, preparation, install or workload is started.
C4_SkipPath ==
  (entrypoint = "run" /\ ResponseSaysWorkflowNotFound) =>
    /\ thrown.kind = "WorkflowValidationSkipError"
    /\ pc \in {"token_catch", "finally", "summary", "final_outputs", "done"}
    /\ pc # "token_catch" =>
         outputs["skipped_due_to_workflow_validation_mismatch"] = "true"
    /\ ~failed
    /\ prepareSuccess
    /\ prepareError = Undefined
    /\ \A ph \in {"permission", "trigger", "prepare", "install", "workload"} :
         ~Started(ph)

\* the skip answer came after earlier attempts had failed and been retried
C4_Witness ==
  /\ entrypoint = "run"
  /\ pc = "done"
  /\ ResponseSaysWorkflowNotFound
  /\ attempt > 1
  /\ outputs["skipped_due_to_workflow_validation_mismatch"] = "true"
  /\ ~failed

SkipAnswer(r) == ~r.ok /\ r.errorCode = WorkflowNotFound
NonSkipFailure(r) ==
  \/ ~r.ok /\ r.errorCode # WorkflowNotFound
  \/ r.ok /\ ~Truthy(r.token) /\ ~Truthy(r.app_token)
ExchangeAttempted == pc = "exchange" /\ attempt' = attempt + 1

C5_Step ==
  /\ (ExchangeAttempted /\ SkipAnswer(lastResponse')) =>
       (pc' = Handler("token") /\ thrown'.kind = "WorkflowValidationSkipError")
  /\ (ExchangeAttempted /\ NonSkipFailure(lastResponse') /\ attempt' < MaxAttempts) =>
       (pc' = "exchange" /\ thrown' = thrown)
  /\ thrown.kind = "WorkflowValidationSkipError" =>
       (pc' # "exchange" /\ attempt' = attempt /\ lastResponse' = lastResponse)

\* C5: an exchange attempt answered with the workflow-validation code leaves
\* the retry wrapper at once as the skip signal, and no exchange attempt
\* follows it; any other failed attempt with attempts left is followed by
\* another attempt, so the skip signal is the only short-circuit.
C5_SkipShortCircuitsRetry == [][C5_Step]_vars

\* the second attempt raised the skip signal while an attempt was still left
C5_Witness ==
  /\ thrown.kind = "WorkflowValidationSkipError"
  /\ attempt = 2
  /\ attempt < MaxAttempts
  /\ pc = "done"

RetryRaised ==
  /\ pc \in {"token_catch", "catch"}
  /\ phaseLog[Len(phaseLog)] = "token"

C6_Step ==
  /\ (ExchangeAttempted /\ exchangeForAppToken(lastResponse').kind = "return") =>
       /\ pc' = "token_done"
       /\ githubToken' = exchangeForAppToken(lastResponse').value
  /\ pc \notin {"token", "oidc", "exchange"} => pc' \notin {"oidc", "exchange"}
  /\ attempt' \in {0, attempt, attempt + 1}

C6_State ==
  /\ attempt <= MaxAttempts
  /\ pc \in {"oidc", "exchange"} => attempt < MaxAttempts
  /\ RetryRaised =>
       /\ thrown = lastError
       /\ thrown.kind = "Error" => attempt = MaxAttempts
       /\ exchangeRequested => thrown = exchangeForAppToken(lastResponse).error
       /\ ~exchangeRequested => thrown = Err(OidcFailureMessage)

\* C6: a retry makes at most MaxAttempts invocations; the first successful
\* invocation ends it with that invocation's result and nothing is invoked
\* afterwards; when every invocation failed with an ordinary error, the error
\* that leaves the retry is the error of the last invocation.
C6_RetryBounded == [][C6_Step]_vars /\ []C6_State

\* the exchange failed MaxAttempts times and the last error was raised
C6_Witness ==
  /\ pc = "token_catch"
  /\ attempt = MaxAttempts
  /\ thrown = lastError
  /\ thrown = Err("server message")

WorkloadFailed ==
  /\ workloadRuns = 1
  /\ thrown.message = "workload failed" \/ outputs["conclusion"] = "failure"

\* C7: the workload is attempted at most once per run, and whenever it fails
\* (runClaude throws, or returns a conclusion other than "success") the run is
\* marked failed, attributed to execution, and cleaned up.
C7_WorkloadFailureMarksFailed ==
  entrypoint = "run" =>
    /\ workloadRuns <= 1
    /\ (WorkloadFailed /\ pc = "done") =>
         (failed /\ prepareSuccess /\ Started("cleanup"))

\* C8 as stated: preparation is started only in runs where the
\* write-permission gate has been evaluated and has passed.
C8_PrepareOnlyAfterGateEvaluated ==
  Started("prepare") => writeGate = "passed"

\* C8 as amended: on an entity context preparation is started only after the
\* write-permission gate has been evaluated and has passed (write permission,
\* allow-listed non-write user, or override credential); a run whose actor
\* fails the gate stops before preparation and any of its side effects; on a
\* non-entity context the gate is not evaluated at all.
C8_PrepareOnlyAfterGatePassedOnEntity ==
  /\ (Started("prepare") /\ context.isEntity) => writeGate = "passed"
  /\ writeGate = "passed" =>
       \/ actorPermission = "write"
       \/ context.allowedNonWriteUser
       \/ Truthy(env.OVERRIDE_GITHUB_TOKEN)
  /\ writeGate \in {"denied", "error"} =>
       (~Started("prepare") /\ effects = {} /\ trackingComment = Undefined)
  /\ (writeGate = "denied" /\ (InCleanup \/ pc = "finally")) =>
       (failed /\ failMessage = NoWritePermissionMessage)
  /\ ~context.isEntity => writeGate = "notEvaluated"

\* an allow-listed user without write permission got through to preparation
C8_Witness ==
  /\ context.isEntity
  /\ Started("prepare")
  /\ writeGate = "passed"
  /\ actorPermission = "read"
  /\ context.allowedNonWriteUser
  /\ ~Truthy(env.OVERRIDE_GITHUB_TOKEN)
  /\ "comment" \in effects

\* C9: in both preparation modes the human/allowed-bot gate comes before every
\* effect: until it has passed there is no tracking comment, SSH key, git
\* configuration, branch or prompt file; a bot outside the allowed-bots list is
\* rejected and preparation ends with that error; an allow-listed bot passes.
C9_HumanGateFirst ==
  /\ humanGate # "passed" => (effects = {} /\ trackingComment = Undefined)
  /\ humanGate = "rejected" =>
       /\ actorType = "Bot"
       /\ ~context.allowedBotsMatch
       /\ thrown = Err(NonHumanActorMessage)
       /\ pc \in {"catch", "finally", "summary", "final_outputs", "done"}
  /\ (actorType = "Bot" /\ context.allowedBotsMatch) => humanGate = "passed"
  /\ (actorType = "Bot" /\ ~context.allowedBotsMatch) => humanGate = "rejected"
  /\ Started("prepare") => (humanGate # "notEvaluated" \/ thrown.kind = "Error")

\* a bot outside the allow-list was rejected in tag mode; the run has ended
C9_Witness ==
  /\ humanGate = "rejected"
  /\ modeName = "tag"
  /\ actorType = "Bot"
  /\ pc = "done"
  /\ effects = {}

\* C10: when the trigger check finds no trigger, the entrypoint exits early and
\* successfully: the run is not marked failed, preparation, install and
\* workload are never started, and the github_token output holds the acquired
\* credential.
C10_NoTriggerEarlyExit ==
  containsTrigger = "false" =>
    /\ ~failed
    /\ exitCode = Undefined
    /\ \A ph \in {"prepare", "install", "workload"} : ~Started(ph)
    /\ effects = {}
    /\ Truthy(githubToken)
    /\ outputs["github_token"] = githubToken
    /\ pc \in {"finally", "summary", "final_outputs", "done"}
    /\ (modeName = "agent" => context.prompt = "")

\* agent mode with an empty prompt: run.ts finished without preparing
C10_Witness ==
  /\ entrypoint = "run"
  /\ modeName = "agent"
  /\ context.prompt = ""
  /\ containsTrigger = "false"
  /\ pc = "done"
  /\ outputs["github_token"] = githubToken
  /\ ~failed

TokenResolved == octokit

\* C11 as stated: every finished run of run.ts run() has emitted github_token
\* and its value is the resolved credential.
C11_TokenOutputIsCredential ==
  (entrypoint = "run" /\ pc = "done") =>
    /\ outputs["github_token"] # Absent
    /\ Truthy(outputs["github_token"])
    /\ outputs["github_token"] = githubToken

\* C11 as amended: every finished run of run.ts run() has called
\* setOutput("github_token", githubToken); the value is the credential that
\* setupGitHubToken returned (the override credential when one is supplied)
\* exactly when it returned one, and undefined on the paths where it never
\* returned: the workflow-validation skip path and a failure before or during
\* the token phase.
C11_TokenOutputAlwaysEmitted ==
  (entrypoint = "run" /\ pc = "done") =>
    /\ outputs["github_token"] # Absent
    /\ outputs["github_token"] = githubToken
    /\ TokenResolved <=> Truthy(githubToken)
    /\ TokenResolved <=> Started("permission") \/ Started("trigger")
    /\ (TokenResolved /\ Truthy(env.OVERRIDE_GITHUB_TOKEN)) =>
         githubToken = env.OVERRIDE_GITHUB_TOKEN
    /\ (TokenResolved /\ ~Truthy(env.OVERRIDE_GITHUB_TOKEN)) =>
         githubToken \in {"tokA", "tokB"}
    /\ thrown.kind = "WorkflowValidationSkipError" =>
         /\ ~TokenResolved
         /\ outputs["github_token"] = Undefined
         /\ outputs["skipped_due_to_workflow_validation_mismatch"] = "true"

\* the skip path has ended: github_token was written, with no credential
C11_Witness ==
  /\ entrypoint = "run"
  /\ pc = "done"
  /\ thrown.kind = "WorkflowValidationSkipError"
  /\ outputs["github_token"] = Undefined
  /\ cleanupLog[Len(cleanupLog)] = "outputs set"

\* C12: in both entrypoints a failure before the end of preparation sets the
\* prepare_error output to the error message, and a failure after it (install,
\* settings, plugins, prompt, workload) leaves the output unset.
C12_PrepareErrorOutput ==
  (pc = "done" /\ failed) =>
    IF Started("install")
    THEN outputs["prepare_error"] = Absent
    ELSE outputs["prepare_error"] = thrown.message

\* C13: once the trigger check has been made, the contains_trigger output
\* holds its result, in both entrypoints, trigger found or not.
C13_ContainsTriggerOutput ==
  containsTrigger # Undefined => outputs["contains_trigger"] = containsTrigger

SkipOutput == outputs["skipped_due_to_workflow_validation_mismatch"]

\* C14: with a non-empty OVERRIDE_GITHUB_TOKEN, setupGitHubToken returns that
\* value as it is and invokes neither getOidcToken nor exchangeForAppToken:
\* no attempt is counted, no response is seen, nothing is retried and the skip
\* signal cannot arise; without it the token phase goes through the OIDC
\* request.
C14_OverrideBypassesExchange ==
  /\ Truthy(env.OVERRIDE_GITHUB_TOKEN) =>
       /\ ~oidcRequested
       /\ ~exchangeRequested
       /\ attempt = 0
       /\ lastError = NoError
       /\ lastResponse = NoResponse
       /\ pc \notin {"oidc", "exchange", "token_catch"}
       /\ thrown.kind # "WorkflowValidationSkipError"
       /\ SkipOutput = Absent
       /\ Started("token") => githubToken = env.OVERRIDE_GITHUB_TOKEN
  /\ (~Truthy(env.OVERRIDE_GITHUB_TOKEN) /\ Started("token")) =>
       (pc = "oidc" \/ oidcRequested)

\* a run with the override credential has finished and put it out
C14_Witness ==
  /\ entrypoint = "run"
  /\ pc = "done"
  /\ env.OVERRIDE_GITHUB_TOKEN = OverrideToken
  /\ githubToken = OverrideToken
  /\ outputs["github_token"] = OverrideToken
  /\ processEnv.GITHUB_TOKEN = OverrideToken
  /\ ~oidcRequested
  /\ ~exchangeRequested

HasCredential(r) == Truthy(r.token) \/ Truthy(r.app_token)

\* C15: on a success response exchangeForAppToken returns a credential exactly
\* when the body has a non-empty token or a non-empty app_token, and then it is
\* token when that is non-empty and app_token otherwise; with neither it raises
\* "App token not found in response"; the token phase never ends with an
\* empty or undefined credential.
C15_SuccessResponseCredential ==
  /\ lastResponse \in OkResponses =>
       /\ HasCredential(lastResponse) =>
            /\ pc = "token_done"
            /\ githubToken = IF Truthy(lastResponse.token) THEN lastResponse.token
                              ELSE lastResponse.app_token
            /\ thrown = NoError
       /\ ~HasCredential(lastResponse) =>
            /\ lastError = Err("App token not found in response")
            /\ githubToken = Undefined
            /\ pc # "token_done"
            /\ pc # "exchange" => thrown = lastError
  /\ pc = "token_done" => Truthy(githubToken)

\* a success body with both fields: token was taken
C15_Witness ==
  /\ pc = "token_done"
  /\ lastResponse.ok
  /\ lastResponse.token = "tokA"
  /\ lastResponse.app_token = "tokB"
  /\ githubToken = "tokA"

OtherErrorAnswer(r) == r \in ErrorResponses /\ r.errorCode # WorkflowNotFound
ServerMessage(r) == IF r.errorMessage # Absent THEN r.errorMessage ELSE "Unknown error"

\* C16: a non-success response whose error code is absent or is not
\* workflow_not_found_on_default_branch makes exchangeForAppToken raise an
\* ordinary error carrying error.message ("Unknown error" when absent): no
\* credential, no skip signal; it is retried while attempts are left, and when
\* they are used up the run fails, attributed to preparation.
C16_OtherErrorIsHardFailure ==
  (exchangeRequested /\ OtherErrorAnswer(lastResponse)) =>
    /\ lastError = Err(ServerMessage(lastResponse))
    /\ githubToken = Undefined
    /\ SkipOutput = Absent
    /\ pc = "exchange" => (thrown = NoError /\ attempt < MaxAttempts)
    /\ pc # "exchange" =>
         /\ thrown = Err(ServerMessage(lastResponse))
         /\ attempt = MaxAttempts
         /\ ~TokenResolved
         /\ \A ph \in {"permission", "trigger", "prepare", "install", "workload"} :
              ~Started(ph)
    /\ (entrypoint = "run" /\ (InCleanup \/ pc = "finally")) =>
         /\ failed
         /\ failMessage = ServerMessage(lastResponse)
         /\ ~prepareSuccess
         /\ prepareError = ServerMessage(lastResponse)
    /\ (entrypoint = "prepare" /\ pc = "done") =>
         /\ failed
         /\ failMessage = ServerMessage(lastResponse)
         /\ outputs["prepare_error"] = ServerMessage(lastResponse)
         /\ exitCode = "1"

\* the last answer had another code, a top-level message and no error.message
C16_Witness ==
  /\ entrypoint = "run"
  /\ pc = "done"
  /\ lastResponse.errorCode = "other_code"
  /\ lastResponse.message = "top message"
  /\ lastResponse.errorMessage = Absent
  /\ failed
  /\ prepareError = "Unknown error"

OidcExhausted ==
  /\ oidcRequested
  /\ ~exchangeRequested
  /\ pc \notin {"oidc", "exchange"}

\* C17: when every attempt to get the OIDC token fails, setupGitHubToken
\* raises the error that tells the operator to add id-token: write, after
\* MaxAttempts attempts; exchangeForAppToken is never invoked, no credential
\* exists, and the run fails, attributed to preparation.
C17_OidcExhaustion ==
  /\ exchangeRequested => oidcRequested
  /\ (pc = "oidc" /\ attempt > 0) => lastError = Err(OidcFailureMessage)
  /\ OidcExhausted =>
       /\ thrown = Err(OidcFailureMessage)
       /\ lastError = thrown
       /\ attempt = MaxAttempts
       /\ lastResponse = NoResponse
       /\ githubToken = Undefined
       /\ ~TokenResolved
       /\ (entrypoint = "run" /\ (InCleanup \/ pc = "finally")) =>
            /\ failed
            /\ failMessage = OidcFailureMessage
            /\ ~prepareSuccess
            /\ prepareError = OidcFailureMessage
       /\ (entrypoint = "prepare" /\ pc = "done") =>
            /\ failed
            /\ failMessage = OidcFailureMessage
            /\ outputs["prepare_error"] = OidcFailureMessage
            /\ exitCode = "1"

\* the standalone prepare step ended after the OIDC retry was used up
C17_Witness ==
  /\ entrypoint = "prepare"
  /\ pc = "done"
  /\ OidcExhausted
  /\ attempt = MaxAttempts
  /\ outputs["prepare_error"] = OidcFailureMessage

\* a is b or an ancestor of b, name by name
IsPrefix(a, b) == Len(a) <= Len(b) /\ SubSeq(b, 1, Len(a)) = a
InitialPath == resolve(repoRoot, filePath)
LexicallyOutside == ~IsPrefix(repoRoot, InitialPath)
RootExists == realpath(repoRoot).ok
TargetExists == realpath(InitialPath).ok
\* what the validator can look up: the target, or its parent when it is missing
Looked == IF TargetExists THEN InitialPath ELSE resolve(InitialPath, ParentSegment)
ReallyOutside ==
  \/ ~realpath(Looked).ok
  \/ ~IsPrefix(realpath(repoRoot).path, realpath(Looked).path)
NoLinkOnTheWay ==
  /\ realpath(repoRoot).path = repoRoot
  /\ realpath(Looked).ok => realpath(Looked).path = Looked

\* C18 as stated (for a root that exists): every candidate whose lexical
\* resolution lies outside repoRoot is refused with the outside-root error.
C18_LexicallyOutsideRejected ==
  (pc # "validate" /\ RootExists /\ LexicallyOutside) =>
    pathResult = PathError(OutsideRootMessage)

\* C18 as amended: for a root that exists, a candidate whose lexical
\* resolution lies outside repoRoot is refused with the outside-root error and
\* no path is returned, whenever what it names (the target, or the parent of a
\* missing target) does not resolve into the resolved root, and in particular
\* whenever no symbolic link lies on the root or on the way to it; it is
\* accepted only where symbolic links lead back into the resolved root.
C18_ReallyOutsideRejected ==
  (pc # "validate" /\ RootExists /\ LexicallyOutside) =>
    /\ ReallyOutside => pathResult = PathError(OutsideRootMessage)
    /\ NoLinkOnTheWay => pathResult = PathError(OutsideRootMessage)
    /\ pathResult.kind = "throw" => pathResult = PathError(OutsideRootMessage)
    /\ pathResult.kind = "return" =>
         (~NoLinkOnTheWay /\ IsPrefix(realpath(repoRoot).path, realpath(Looked).path))

\* src/../.. hides the way out at the end of the candidate
C18_Witness ==
  /\ pc = "validated"
  /\ repoRoot = <<RepoName>>
  /\ filePath = [absolute |-> FALSE, segs |-> <<SrcName, DotDot, DotDot>>]
  /\ InitialPath = <<>>
  /\ pathResult = PathError(OutsideRootMessage)

\* C19: whatever the filesystem and the candidate, a read or a write of a
\* path the validator returned ends, with every symbolic link followed, at
\* the resolved root or below it.
C19_AccessStaysInRoot ==
  (pc = "accessed" /\ reached.ok) =>
    IsPrefix(realpath(repoRoot).path, reached.path)

\* C20: when repoRoot does not exist the validator fails with the
\* root-not-found error whatever the candidate, also for a candidate that lies
\* outside the root, and it gives that error in no other case.
C20_RootNotFoundFirst ==
  pc # "validate" =>
    /\ ~RootExists <=> pathResult = PathError(RootNotFoundMessage)
    /\ ~RootExists => pathResult.kind = "throw"
    /\ pathResult.message = RootNotFoundMessage => repoRoot = <<MissingName>>

\* the absolute path of the sibling directory, with a root that is missing
C20_Witness ==
  /\ pc = "validated"
  /\ repoRoot = <<MissingName>>
  /\ filePath = [absolute |-> TRUE, segs |-> <<EvilName>>]
  /\ LexicallyOutside
  /\ pathResult = PathError(RootNotFoundMessage)

\* what the validator looked up, with every symbolic link resolved
ResolvedRoot == realpath(repoRoot).path
ResolvedLooked == realpath(Looked).path
\* the string of the looked-up path continues the string of the root
\* without a separator in between: a sibling such as /repo-evil
SiblingOfRoot ==
  /\ startsWith(PathString(ResolvedLooked), PathString(ResolvedRoot))
  /\ ~IsPrefix(ResolvedRoot, ResolvedLooked)

\* C21: for a root that exists, whether the target exists (the resolved
\* target is tested) or not (the resolved parent is tested), the candidate is
\* accepted exactly when the resolved path is the resolved root or lies below
\* it name by name; a path that only shares the root's string as a prefix,
\* such as one inside the sibling directory repoRoot + "-evil", is refused
\* with the outside-root error.
C21_SeparatorBoundary ==
  (pc # "validate" /\ RootExists /\ realpath(Looked).ok) =>
    /\ TargetExists =>
         (pathResult.kind = "return" <=> IsPrefix(ResolvedRoot, realpath(InitialPath).path))
    /\ ~TargetExists =>
         (pathResult.kind = "return" <=>
            IsPrefix(ResolvedRoot, realpath(resolve(InitialPath, ParentSegment)).path))
    /\ SiblingOfRoot => pathResult = PathError(OutsideRootMessage)

\* a new file inside the sibling directory: the parent /repo-evil is tested
C21_Witness ==
  /\ pc = "validated"
  /\ repoRoot = <<RepoName>>
  /\ filePath = [absolute |-> FALSE, segs |-> <<DotDot, EvilName, NewName>>]
  /\ ~TargetExists
  /\ ResolvedLooked = <<EvilName>>
  /\ SiblingOfRoot
  /\ pathResult = PathError(OutsideRootMessage)

ParentOfInitial == resolve(InitialPath, ParentSegment)

BranchValidated == pc = "branch_validated"
Adjacent(c, d) ==
  \E i \in 1..(Len(branchName) - 1) : branchName[i] = c /\ branchName[i + 1] = d
FirstIs(c) == branchName # <<>> /\ Head(branchName) = c
LastIs(c) == branchName # <<>> /\ branchName[Len(branchName)] = c
LockFile ==
  /\ Len(branchName) >= 5
  /\ SubSeq(branchName, Len(branchName) - 4, Len(branchName)) = <<".", "l", "o", "c", "k">>
\* the reasons of the rules the name violates
ViolatedRules ==
  (IF \A i \in 1..Len(branchName) : branchName[i] = " "
   THEN {"cannot be empty"} ELSE {})
  \cup (IF FirstIs("-") THEN {"cannot start with a dash"} ELSE {})
  \cup (IF Adjacent(".", ".") THEN {"cannot contain '..'"} ELSE {})
  \cup (IF Adjacent("@", "{") THEN {"cannot contain '@{'"} ELSE {})
  \cup (IF LockFile THEN {"cannot end with '.lock'"} ELSE {})
  \cup (IF Adjacent("/", "/") THEN {"cannot contain consecutive slashes"} ELSE {})
  \cup (IF LastIs("/") THEN {"cannot end with a slash"} ELSE {})
  \cup (IF FirstIs(".") \/ LastIs(".")
        THEN {"cannot start or end with a period"} ELSE {})
  \cup (IF \E i \in 1..Len(branchName) : branchName[i] \in {";", " ", "NUL"}
        THEN {"cannot contain shell metacharacters, white space or control characters"}
        ELSE {})

\* C23: a name that is empty or all white space, starts with a dash, contains
\* "..", contains "@{", ends with ".lock", contains "//", ends with "/",
\* starts or ends with ".", or contains a shell metacharacter, white space or
\* a control character is rejected, and the reason given is the reason of a
\* rule the name violates; the empty name and the leading dash always get
\* their own reason.
C23_RejectedWithReason ==
  BranchValidated =>
    /\ ViolatedRules # {} =>
         /\ branchResult.kind = "throw"
         /\ branchResult.message \in ViolatedRules
    /\ "cannot be empty" \in ViolatedRules =>
         branchResult = BranchError("cannot be empty")
    /\ (FirstIs("-") /\ "cannot be empty" \notin ViolatedRules) =>
         branchResult = BranchError("cannot start with a dash")
    /\ ViolatedRules = {"cannot end with a slash"} =>
         branchResult = BranchError("cannot end with a slash")
    /\ ViolatedRules = {"cannot start or end with a period"} =>
         branchResult = BranchError("cannot start or end with a period")

\* "a/": the trailing slash is the only rule violated
C23_Witness ==
  /\ BranchValidated
  /\ branchName = <<"a", "/">>
  /\ ViolatedRules = {"cannot end with a slash"}
  /\ branchResult = BranchError("cannot end with a slash")

OnlyAllowedChars ==
  \A i \in 1..Len(branchName) :
    branchName[i] \in {"a", "l", "o", "c", "k", "-", "_", "/", "."}
StructurallySound ==
  /\ ~FirstIs("-")
  /\ ~Adjacent(".", ".")
  /\ ~LockFile
  /\ ~Adjacent("/", "/")
  /\ ~LastIs("/")
  /\ ~FirstIs(".")
  /\ ~LastIs(".")

\* C24: an accepted name is made of alphanumerics, "-", "_", "/" and "."
\* only, and every non-empty name made of those characters that starts with
\* no dash, contains no ".." and no "//", ends with neither ".lock" nor "/",
\* and neither starts nor ends with "." is accepted.
C24_AcceptedNames ==
  BranchValidated =>
    /\ branchResult.kind = "return" => (branchName # <<>> /\ OnlyAllowedChars)
    /\ (branchName # <<>> /\ OnlyAllowedChars /\ StructurallySound) =>
         branchResult = BranchOk

\* the shape of "feature/new-thing"
C24_Witness ==
  /\ BranchValidated
  /\ branchName = <<"a", "/", "a", "-", "a">>
  /\ OnlyAllowedChars
  /\ StructurallySound
  /\ branchResult = BranchOk

RawValue == additionalPermissions.value
Parsed == pc \in {"permissions_parsed", "permissions_sent"}
\* the line feed before position i (0 when there is none), the one after it
LineStart(i) ==
  LET feeds == {j \in 1..(i - 1) : RawValue[j] = "NL"}
  IN IF feeds = {} THEN 0 ELSE CHOOSE j \in feeds : \A k \in feeds : k <= j
LineEnd(i) ==
  LET feeds == {j \in (i + 1)..Len(RawValue) : RawValue[j] = "NL"}
  IN IF feeds = {} THEN Len(RawValue) + 1 ELSE CHOOSE j \in feeds : \A k \in feeds : j <= k
\* the colons that are the first of their line
FirstColons ==
  {i \in 1..Len(RawValue) :
     /\ RawValue[i] = ":"
     /\ \A j \in (LineStart(i) + 1)..(i - 1) : RawValue[j] # ":"}
KeyAt(i) == trim(SubSeq(RawValue, LineStart(i) + 1, i - 1))
ValueAt(i) == trim(SubSeq(RawValue, i + 1, LineEnd(i) - 1))
\* the well-formed lines, each named by the position of its colon
WellFormed == {i \in FirstColons : KeyAt(i) # <<>> /\ ValueAt(i) # <<>>}
ParsedKeys == {KeyAt(i) : i \in WellFormed}
\* the value of the last well-formed line with key k
ParsedValue(k) ==
  ValueAt(CHOOSE i \in WellFormed :
            KeyAt(i) = k /\ \A j \in WellFormed : KeyAt(j) = k => j <= i)
DefaultKeys == {<<"contents">>, <<"pull_requests">>, <<"issues">>}

\* C25: parseAdditionalPermissions returns no overlay exactly when the input
\* is unset, empty, all white space or holds no well-formed line; otherwise
\* it returns the defaults contents, pull_requests and issues, all write,
\* merged with the parsed entries, a parsed entry replacing the default of
\* the same key.
C25_DefaultsMergedWithParsed ==
  Parsed =>
    /\ ~permissions.defined <=> (~additionalPermissions.set \/ WellFormed = {})
    /\ permissions.defined =>
         /\ DOMAIN permissions.overlay = DefaultKeys \cup ParsedKeys
         /\ \A k \in DOMAIN permissions.overlay :
              permissions.overlay[k] =
                IF k \in ParsedKeys THEN ParsedValue(k) ELSE <<"write">>

Trimmed(str) ==
  str # <<>> /\ str[1] \notin {" ", "NL"} /\ str[Len(str)] \notin {" ", "NL"}
\* a line with a colon, something before the first colon and something after it
IsWellFormedLine(line) ==
  \E i \in 1..Len(line) :
    /\ line[i] = ":"
    /\ \A j \in 1..(i - 1) : line[j] # ":"
    /\ \E j \in 1..(i - 1) : line[j] # " "
    /\ \E j \in (i + 1)..Len(line) : line[j] # " "
RECURSIVE JoinLines(_)
JoinLines(lines) ==
  IF lines = <<>> THEN <<>>
  ELSE IF Len(lines) = 1 THEN Head(lines)
  ELSE Head(lines) \o <<"NL">> \o JoinLines(Tail(lines))
\* the input without its malformed lines
WithoutMalformed ==
  [set |-> TRUE,
   value |-> JoinLines(SelectSeq(split(RawValue, "NL"), IsWellFormedLine))]

\* C26: in every overlay returned, each key and each value is a non-empty
\* string that neither starts nor ends with white space; a line without a
\* colon, with nothing before the colon or with nothing after it is dropped,
\* the call returns, and the result is the one the input gives without its
\* malformed lines.
C26_TrimmedEntriesMalformedDropped ==
  Parsed =>
    /\ permissions.defined =>
         \A k \in DOMAIN permissions.overlay :
           Trimmed(k) /\ Trimmed(permissions.overlay[k])
    /\ additionalPermissions.set =>
         permissions = parseAdditionalPermissions(WithoutMalformed)
    /\ permissions.defined =>
         \A k \in DOMAIN permissions.overlay \ DefaultKeys : k \in ParsedKeys

\* a line without a key, then a well-formed line
C26_Witness ==
  /\ Parsed
  /\ RawValue = <<":", "read", "NL", "read", ":", "read">>
  /\ WithoutMalformed.value = <<"read", ":", "read">>
  /\ permissions.defined
  /\ DOMAIN permissions.overlay = DefaultKeys \cup {<<"read">>}
  /\ permissions.overlay[<<"read">>] = <<"read">>

\* C27: every value of an overlay that parseAdditionalPermissions produced
\* and exchangeForAppToken put into the body of its request is read or write.
C27_ValuesAreAccessLevels ==
  (pc = "permissions_sent" /\ requestBody.present) =>
    \A k \in DOMAIN requestBody.permissions :
      requestBody.permissions[k] \in {<<"read">>, <<"write">>}

\* name is pat, or pat is the wildcard and the last token of name is "[bot]"
Matches(name, pat) ==
  \/ name = pat
  \/ pat = <<"*", "[bot]">> /\ name # <<>> /\ name[Len(name)] = "[bot]"
MatchesSome(list) == \E i \in 1..Len(list) : Matches(actor, list[i])

\* C28: shouldIncludeCommentByActor returns true exactly when no exclude
\* pattern matches the actor and the include list is empty or one of its
\* patterns matches; an actor that both lists match is left out, and with
\* both lists empty every actor is kept.
C28_ExcludeWins ==
  pc = "include_decided" =>
    /\ included <=>
         (~MatchesSome(excludeActors)
          /\ (includeActors = <<>> \/ MatchesSome(includeActors)))
    /\ (MatchesSome(excludeActors) /\ MatchesSome(includeActors)) => ~included
    /\ (excludeActors = <<>> /\ includeActors = <<>>) => included

\* user1[bot]: the wildcard includes it, its own name excludes it
C28_Witness ==
  /\ pc = "include_decided"
  /\ actor = <<"user1", "[bot]">>
  /\ includeActors = <<<<"*", "[bot]">>>>
  /\ excludeActors = <<<<"user1", "[bot]">>>>
  /\ ~included

HasAsterisk(pat) == \E i \in 1..Len(pat) : pat[i] = "*"

\* C29: actorMatchesPattern is true exactly when actor and pattern are the
\* same string, upper and lower case told apart, or the pattern is *[bot] and
\* the actor ends with [bot]; the wildcard matches no name with another
\* ending, and a pattern with an asterisk other than *[bot] matches only the
\* actor of that very name.
C29_ExactOrBotWildcard ==
  pc = "matched" =>
    /\ matches <=> Matches(actor, pattern)
    /\ (pattern = <<"*", "[bot]">> /\ (actor = <<>> \/ actor[Len(actor)] # "[bot]")) =>
         ~matches
    /\ (HasAsterisk(pattern) /\ pattern # <<"*", "[bot]">>) =>
         (matches <=> actor = pattern)
    /\ (actor = <<"User1">> /\ pattern = <<"user1">>) => ~matches

\* "user1-bot" against the wildcard
C29_Witness ==
  /\ pc = "matched"
  /\ actor = <<"user1", "-bot">>
  /\ pattern = <<"*", "[bot]">>
  /\ ~matches

\* the places where an entry of the filter string begins: before the first
\* token and after every comma
EntryStarts == {0} \cup {i \in 1..Len(filterString) : filterString[i] = ","}
EntryEnd(b) ==
  LET commas == {i \in (b + 1)..Len(filterString) : filterString[i] = ","}
  IN IF commas = {} THEN Len(filterString) + 1
     ELSE CHOOSE i \in commas : \A j \in commas : i <= j
EntryAt(b) == trim(SubSeq(filterString, b + 1, EntryEnd(b) - 1))
KeptEntries == {b \in EntryStarts : EntryAt(b) # <<>>}
\* the list holds the trimmed, non-empty entries in the order of the input
InInputOrder ==
  /\ Len(filterList) = Cardinality(KeptEntries)
  /\ \A b \in KeptEntries :
       filterList[Cardinality({c \in KeptEntries : c <= b})] = EntryAt(b)

\* C30: parseActorFilter returns the patterns of its comma-separated input
\* in input order, each trimmed and non-empty, none of them twice; an empty
\* or all-blank input gives the empty list.
C30_OrderedSetOfPatterns ==
  pc = "filter_parsed" =>
    /\ InInputOrder
    /\ \A i \in 1..Len(filterList) : Trimmed(filterList[i])
    /\ trim(filterString) = <<>> => filterList = <<>>
    /\ \A i, j \in 1..Len(filterList) : filterList[i] = filterList[j] => i = j

KeyGiven == context.sshSigningKey # ""
ApiSigning == context.useCommitSigning /\ ~KeyGiven
GitCliTools ==
  {"Bash(git add:*)", "Bash(git commit:*)", "Bash(git push:*)", "Bash(git status:*)",
   "Bash(git diff:*)", "Bash(git log:*)", "Bash(git rm:*)"}
FileOpsTools ==
  {"mcp__github_file_ops__commit_files", "mcp__github_file_ops__delete_files"}

\* C31: API commit signing is used exactly when useCommitSigning is set and
\* no SSH key is given. In both modes setupSshSigning is called only with a
\* key, and has been called once the step is passed with a key;
\* configureGitAuth is called only when API commit signing is not used, and
\* has been called once its step is passed without API commit signing. The
\* tools tag mode pushes are the git commands without API commit signing and
\* the two file-ops tools with it, never both.
C31_SshSigningPrecedence ==
  /\ useApiCommitSigning <=> ApiSigning
  /\ "setupSshSigning" \in called => KeyGiven
  /\ "configureGitAuth" \in called => ~ApiSigning
  /\ pc \in {"tag_gitauth", "agent_gitauth", "tag_prompt", "agent_prompt"} =>
       ("setupSshSigning" \in called <=> KeyGiven)
  /\ pc \in {"tag_prompt", "agent_prompt"} =>
       ("configureGitAuth" \in called <=> ~ApiSigning)
  /\ tagModeTools.pushed # {} => modeName = "tag"
  /\ (modeName = "tag" /\ pc = "prepare_done") =>
       /\ tagModeTools.pushed = IF ApiSigning THEN FileOpsTools ELSE GitCliTools
       /\ ~(tagModeTools.pushed \cap GitCliTools # {}
            /\ tagModeTools.pushed \cap FileOpsTools # {})

\* tag mode with useCommitSigning and an SSH key: the key wins
C31_Witness ==
  /\ modeName = "tag"
  /\ pc = "prepare_done"
  /\ context.useCommitSigning
  /\ KeyGiven
  /\ called = {"setupSshSigning", "configureGitAuth"}
  /\ tagModeTools.pushed = GitCliTools

\* ------------------------------------------------------------------ phase order
\* the phases of run.ts run(), in the order of its statements
PhaseOrder ==
  <<"token", "permission", "trigger", "prepare", "install", "workload", "cleanup">>
Rank(phase) == CHOOSE k \in DOMAIN PhaseOrder : PhaseOrder[k] = phase
IsPhase(phase) == \E k \in DOMAIN PhaseOrder : PhaseOrder[k] = phase
\* a phase has ended without handing over to the next one: an exception is on
\* its way to a handler, the trigger check said no, or control is at the
\* finally block
EndedEarly == thrown # NoError \/ containsTrigger = "false" \/ pc = "finally"

\* C32: in any execution of run.ts run(), the phases start in the order
\* credential acquisition, write-permission check, trigger check, preparation,
\* install, workload, cleanup: the started phases are strictly increasing in
\* that order (so none starts twice and none is gone back to), a phase other
\* than the first starts only when an earlier one has started and no failure
\* or early exit is pending, each step starts at most one phase, and once a
\* phase has failed or exited early the only phase that still starts is
\* cleanup.
C32_PhasesInFixedOrder ==
  /\ [](entrypoint = "run" =>
          \A i, j \in DOMAIN phaseLog :
            (i < j /\ IsPhase(phaseLog[i]) /\ IsPhase(phaseLog[j])) =>
              Rank(phaseLog[i]) < Rank(phaseLog[j]))
  /\ [][entrypoint = "run" =>
          /\ phaseLog' = phaseLog \/ \E phase \in {"context"} \cup {PhaseOrder[k] : k \in DOMAIN PhaseOrder} :
                                       phaseLog' = Append(phaseLog, phase)
          /\ (phaseLog' # phaseLog /\ phaseLog'[Len(phaseLog')] \notin {"context", "token", "cleanup"}) =>
               /\ ~EndedEarly
               /\ Started(PhaseOrder[Rank(phaseLog'[Len(phaseLog')]) - 1])
                    \/ (phaseLog'[Len(phaseLog')] = "trigger" /\ ~context.isEntity /\ Started("token"))
          /\ EndedEarly => phaseLog' \in {phaseLog, Append(phaseLog, "cleanup")}]_vars

\* a run that went through all seven phases, in order
C32_Witness ==
  /\ entrypoint = "run"
  /\ pc = "done"
  /\ phaseLog = <<"context">> \o PhaseOrder

\* ------------------------------------------------------------------ failed preparation and the tracking comment
\* the finally block has called updateCommentLink (whether or not the call
\* succeeded)
UpdateCommentLinkCalled ==
  Count(cleanupLog, "comment updated") + Count(cleanupLog, "comment update failed") > 0

\* C33: when prepareTagMode throws after it has created the tracking comment
\* (in data fetching, branch setup, git authentication or prompt creation), the
\* finally block of run() calls updateCommentLink for that comment, with
\* prepareSuccess = false and prepareError = the message of the error.
C33_FailedPreparationUpdatesComment ==
  (/\ entrypoint = "run"
   /\ InCleanup
   /\ trackingComment # Undefined
   /\ thrown.message \in {"fetch data failed", "setup branch failed",
                          "configure git auth failed", "create prompt failed"}) =>
    /\ UpdateCommentLinkCalled
    /\ prepareSuccess = FALSE
    /\ prepareError = thrown.message

\* ------------------------------------------------------------------ the skip signal in prepare.ts
\* C34: in prepare.ts run(), a workflow-validation skip signal raised by
\* setupGitHubToken ends the step as a clean no-op: the step is not marked
\* failed, prepare_error is not set, and the process does not exit non-zero.
C34_PrepareSkipIsCleanNoOp ==
  (/\ entrypoint = "prepare"
   /\ pc = "done"
   /\ thrown.kind = "WorkflowValidationSkipError") =>
    /\ ~failed
    /\ outputs["prepare_error"] = Absent
    /\ exitCode # "1"

\* ------------------------------------------------------------------ the credential in the process environment
EnvUnwritten == [GITHUB_TOKEN |-> Absent, GH_TOKEN |-> Absent]

\* C35: run.ts run() writes GITHUB_TOKEN and GH_TOKEN of the process
\* environment at most once, in the step that follows the return of
\* setupGitHubToken, both with the credential it returned; while the credential
\* is being acquired, on the skip path and after a failed authentication they
\* are unwritten, and no later step changes them.
C35_TokenEnvWrittenOnce ==
  /\ [](entrypoint = "run" =>
          /\ processEnv # EnvUnwritten =>
               /\ TokenResolved
               /\ Truthy(githubToken)
               /\ processEnv = [GITHUB_TOKEN |-> githubToken, GH_TOKEN |-> githubToken]
          /\ TokenResolved => processEnv # EnvUnwritten
          /\ (SkipOutput = "true" \/ ~TokenResolved) => processEnv = EnvUnwritten)
  /\ [][(entrypoint = "run" /\ processEnv' # processEnv) =>
          /\ pc = "token_done"
          /\ processEnv = EnvUnwritten
          /\ processEnv' = [GITHUB_TOKEN |-> githubToken, GH_TOKEN |-> githubToken]]_vars

\* a finished run whose credential came from the exchange and is in both
\* variables, although the workload failed afterwards
C35_Witness ==
  /\ entrypoint = "run"
  /\ pc = "done"
  /\ exchangeRequested
  /\ processEnv = [GITHUB_TOKEN |-> githubToken, GH_TOKEN |-> githubToken]
  /\ Truthy(githubToken)
  /\ thrown.message = "workload failed"

\* ------------------------------------------------------------------ what the comment update reports
\* C36: updateCommentLink reports actionFailed = true whenever prepareSuccess
\* is false, and otherwise exactly when claudeSuccess is false, whatever the
\* state of the output file (missing or unparseable included); errorDetails is
\* set only when preparation failed, and then to prepareError.
C36_ActionFailedReport ==
  linkResult.called =>
    /\ linkResult.actionFailed =
         (IF ~linkParams.prepareSuccess THEN TRUE ELSE ~linkParams.claudeSuccess)
    /\ linkResult.errorDetails # Undefined =>
         (~linkParams.prepareSuccess /\ linkResult.errorDetails = linkParams.prepareError)

\* ------------------------------------------------------------------ candidates whose target is missing
ResolvedParent == realpath(ParentOfInitial)

\* C37: for a candidate whose target does not exist (the root being there),
\* validatePathWithinRepo accepts exactly when the lexical parent exists and
\* its symlink-resolved path is the resolved root or below it; when the parent
\* does not exist the candidate is rejected with "resolves outside the
\* repository root", also when the lexical path lies inside the root.
C37_MissingTargetJudgedByParent ==
  (pc # "validate" /\ RootExists /\ ~TargetExists) =>
    /\ pathResult.kind = "return" <=>
         (ResolvedParent.ok /\ IsPrefix(ResolvedRoot, ResolvedParent.path))
    /\ pathResult.kind = "return" => pathResult.path = InitialPath
    /\ pathResult.kind # "return" => pathResult = PathError(OutsideRootMessage)

\* a new file in a directory that does not exist, lexically inside the root,
\* has been rejected
C37_Witness ==
  /\ pc = "validated"
  /\ RootExists
  /\ ~TargetExists
  /\ ~ResolvedParent.ok
  /\ ~LexicallyOutside
  /\ Len(InitialPath) = Len(repoRoot) + 2
  /\ pathResult = PathError(OutsideRootMessage)

\* ------------------------------------------------------------------ a failing configureGitAuth
GitAuthFailed == "configure git auth failed"

\* C38: a failure of configureGitAuth is logged by prepareAgentMode, which
\* goes on (with or without SSH signing) to write the prompt file and return
\* its result unless a later step fails on its own; prepareTagMode re-raises
\* it, so that preparation fails with the tracking comment already created
\* and without a prompt file.
C38_GitAuthFailureByMode ==
  /\ modeName = "agent" =>
       /\ thrown.message # GitAuthFailed
       /\ "gitAuthFailureLogged" \in effects =>
            /\ "configureGitAuth" \in called
            /\ pc # "agent_gitauth"
            /\ thrown.message \in {"", "write prompt failed"} \/ "promptFile" \in effects
            /\ pc = "prepare_done" => "promptFile" \in effects
  /\ modeName = "tag" => "gitAuthFailureLogged" \notin effects
  /\ thrown.message = GitAuthFailed =>
       /\ modeName = "tag"
       /\ "configureGitAuth" \in called
       /\ trackingComment # Undefined
       /\ "promptFile" \notin effects
       /\ ~prepareCompleted
       /\ pc \notin {"tag_prompt", "tag_mcp", "prepare_done", "install"}

\* agent mode with an SSH key has completed preparation although
\* configureGitAuth failed
C38_Witness ==
  /\ modeName = "agent"
  /\ pc = "prepare_done"
  /\ useSshSigning
  /\ effects = {"sshKey", "gitConfig", "gitAuthFailureLogged", "promptFile"}
  /\ thrown = NoError

\* ------------------------------------------------------------------ the SSH signing key
KeyBlank == \A i \in 1..Len(signingKey) : signingKey[i] \in {" ", "NL"}
KeyHas(word) == \E i \in 1..Len(signingKey) : signingKey[i] = word
KeyRejected == KeyBlank \/ ~KeyHas("BEGIN") \/ ~KeyHas("PRIVATE KEY")
\* the key, with one line feed appended when it does not end with one
WithTrailingNewline(key) ==
  IF Len(key) > 0 /\ key[Len(key)] = "NL" THEN key ELSE Append(key, "NL")
SetupStep == pc = "ssh" /\ pc' = "ssh_set"

\* C39: setupSshSigning validates before it acts: an empty or blank key, and
\* a key without "BEGIN" or without "PRIVATE KEY", is rejected with the
\* directory, the key file and the git configuration left as they were; for an
\* accepted key the content written to the key file is the key with one line
\* feed appended exactly when it did not end with one, and normalizing a
\* normalized key changes nothing.
C39_ValidatesThenNormalizes ==
  /\ [](sshResult.op = "setupSshSigning" =>
          /\ KeyBlank =>
               (sshResult.kind = "throw"
                /\ sshResult.message = "SSH signing key cannot be empty")
          /\ (~KeyBlank /\ KeyRejected) =>
               (sshResult.kind = "throw"
                /\ sshResult.message = "Invalid SSH private key format")
          /\ sshResult.kind = "return" =>
               /\ ~KeyRejected
               /\ sshDir
               /\ keyFile = [exists |-> TRUE, content |-> WithTrailingNewline(signingKey)])
  /\ [](normalizedKey(normalizedKey(signingKey)) = normalizedKey(signingKey))
  /\ [][SetupStep =>
          /\ KeyRejected => UNCHANGED <<sshDir, keyFile, gitSigning>>
          /\ keyFile' # keyFile =>
               keyFile' = [exists |-> TRUE, content |-> WithTrailingNewline(signingKey)]
          /\ gitSigning' # gitSigning => keyFile'.content = WithTrailingNewline(signingKey)]_vars

\* a key without a trailing line feed has been written, with one, over the
\* key file of an earlier run
C39_Witness ==
  /\ pc = "ssh_set"
  /\ sshResult = [op |-> "setupSshSigning", kind |-> "return", message |-> ""]
  /\ signingKey = <<"BEGIN", "PRIVATE KEY", "k">>
  /\ keyFile = [exists |-> TRUE, content |-> <<"BEGIN", "PRIVATE KEY", "k", "NL">>]

\* ------------------------------------------------------------------ cleanup of the SSH signing key
CleanupCalled == sshResult.op \in {"cleanupSshSigning", "run"}
CleanupStep == pc' = "ssh_clean" /\ sshResult'.op \in {"cleanupSshSigning", "run"}
NoKeyFile == [exists |-> FALSE, content |-> <<>>]

\* C40 as stated: after cleanupSshSigning has returned, from the function or
\* from the cleanup entrypoint, it has not raised and the key file does not
\* exist, whether or not it existed before.
C40_KeyFileGoneAfterCleanup ==
  CleanupCalled => (sshResult.kind = "return" /\ ~keyFile.exists)

\* C40: cleanupSshSigning and the cleanup entrypoint never raise; when the
\* removal succeeds the key file does not exist afterwards, whether or not it
\* existed before; a call that finds no key file changes nothing; a failed
\* removal leaves the file as it was and is only logged; the directory, the
\* git configuration and the key given are never touched.
C40_CleanupNeverRaises ==
  /\ [](CleanupCalled =>
          /\ sshResult.kind = "return"
          /\ sshResult.message = "SSH signing key cleaned up" => keyFile = NoKeyFile)
  /\ [][CleanupStep =>
          /\ sshResult'.kind = "return"
          /\ keyFile' \in {keyFile, NoKeyFile}
          /\ keyFile = NoKeyFile => keyFile' = keyFile
          /\ UNCHANGED <<sshDir, gitSigning, signingKey>>]_vars

\* the cleanup entrypoint has returned although the removal failed: the key
\* file that setupSshSigning wrote is still there
C40_Witness ==
  /\ pc = "ssh_clean"
  /\ sshResult = [op |-> "run", kind |-> "return",
                  message |-> "No SSH signing key to clean up"]
  /\ signingKey = <<"BEGIN", "PRIVATE KEY">>
  /\ keyFile = [exists |-> TRUE, content |-> <<"BEGIN", "PRIVATE KEY", "NL">>]

====
